---- MODULE Spec2Model ----
(***************************************************************************)
(* Model of the conversion layer of robusta (src/convert): the per-type    *)
(* OnceLock caches of class references and member ids, and the composite   *)
(* conversion adapters (Option, Result, Vec, tuples) built on them.        *)
(*                                                                         *)
(* Spec             threads racing through get_jclass and a member-id cache*)
(* SpecOption, SpecResult, SpecVec, SpecTuple, SpecUnit, SpecPrimitive,    *)
(* SpecBoolArray, SpecPropagate, SpecParity, SpecSignature, SpecExtract    *)
(*                  conversion calls on bounded inputs, one call a step    *)
(* SpecConcurrent   conversion calls of several threads, one JNI call or   *)
(*                  OnceLock operation a step; SpecFirstAccess adds weak   *)
(*                  fairness on every thread                               *)
(* SpecDescriptor   SIG_TYPE of composed types in each build configuration *)
(* SpecBuild        build.rs generating the tuple adapters                 *)
(***************************************************************************)
EXTENDS Integers, Sequences, FiniteSets, TLC

VARIABLES
    \* ---- cache concurrency (Spec) ----
    pc,         \* per thread: position inside get_jclass / Result::into
    ret,        \* per thread: where get_jclass returns to
    op,         \* per thread: the call in progress
    once,       \* per OnceLock: state of its std::sync::Once
    owner,      \* per OnceLock: the thread running its initialiser, or NoThread
    slot,       \* per OnceLock: the stored value, or Empty
    tmp,        \* per thread: value computed by the initialiser, not yet stored
    handle,     \* per thread: the class handle the last get_jclass returned
    used,       \* per thread: the constructor id new_object_unchecked was given
    outcome,    \* per thread: how the last call ended
    calls,      \* per thread: calls started so far
    nextRef,    \* id of the next global reference the JVM hands out
    live,       \* global references created and not deleted
    attempts,   \* per OnceLock: initialiser runs started
    failures,   \* per OnceLock: initialiser runs that panicked
    writes,     \* per OnceLock: values stored
    first,      \* per OnceLock: the first value stored
    aborted,    \* the process was torn down by a panic
    \* ---- conversion calls (SpecOption, SpecResult, ...) ----
    cache,      \* the OnceLock statics of the adapters: slot key -> stored value
    cfg,        \* build configuration and foreign class layout of this process
    last,       \* the last conversion call: function, type, argument, outcome
    \* ---- concurrent conversion calls (SpecConcurrent, SpecFirstAccess) ----
    job,        \* per thread: the conversion in progress and its locals
    heap        \* the ArrayList objects of the JVM: list id -> contents

cvars == <<pc, ret, op, once, owner, slot, tmp, handle, used, outcome, calls,
           nextRef, live, attempts, failures, writes, first, aborted>>

tvars == <<pc, ret, op, once, owner, slot, tmp, handle, used, outcome, calls,
           nextRef, live, attempts, failures, writes, first>>

evars == <<job, heap>>

kvars == <<cache, cfg, last, evars>>

vars == <<cvars, kvars>>

\* ---------------------------------------------------------------- bounds
NumThreads == 2
MaxCalls == 2

Threads == 1..NumThreads
NoThread == 0

\* ---------------------------------------------------------------- values
Empty == [k |-> "empty", id |-> 0]
GRef(n) == [k |-> "gref", id |-> n]
\* the id the JVM gives for Result.<init>(BLjava/lang/Object;)V
CtorMethodId == [k |-> "mid", id |-> 0]

\* the two OnceLock statics of Result<Ok, Err> this specification follows
Slots == {"JCLASS_REF", "CTOR_ID"}

Ops == {"get_jclass", "into"}

\* a thread outside every concurrent conversion call
NoJob == [kind |-> "none", arg |-> <<>>, src |-> 0, m |-> 0, i |-> 0,
          obj |-> 0, out |-> <<>>]

\* ------------------------------------------------------- OnceLock / panic
\* OnceLock::get_or_init with the initialiser guarded only by "not yet complete"
CanEnterInitRacy(st) == st # "complete"

\* OnceLock::get_or_init runs the initialiser when the Once is incomplete, or
\* poisoned by an earlier panic (call_once_force); a running Once blocks the caller
CanEnterInit(st) == st \in {"incomplete", "poisoned"}

\* a panic unwinds through every initialiser the thread is running: each of
\* those Once cells is left poisoned and its slot stays unwritten
PoisonHeld(t) == [s \in Slots |-> IF owner[s] = t THEN "poisoned" ELSE once[s]]
ReleaseHeld(t) == [s \in Slots |-> IF owner[s] = t THEN NoThread ELSE owner[s]]
FailHeld(t) == [s \in Slots |-> IF owner[s] = t THEN failures[s] + 1 ELSE failures[s]]

\* .unwrap() on Err: the call panics; the build either aborts the process or
\* unwinds the calling thread
Panic(t) ==
    /\ once' = PoisonHeld(t)
    /\ owner' = ReleaseHeld(t)
    /\ failures' = FailHeld(t)
    /\ pc' = [pc EXCEPT ![t] = "idle"]
    /\ outcome' = [outcome EXCEPT ![t] = "panic"]
    /\ tmp' = [tmp EXCEPT ![t] = Empty]
    /\ aborted' \in BOOLEAN

\* ================================================== conversion model
\* bounds of the conversion inputs
MaxNest == 2
MaxLen == 2
MaxArity == 2
MaxSupp == 40
MaxChars == 4
MaxSlice == 4

\* ------------------------------------------------ descriptors (strings)
\* a descriptor string is the sequence of its pieces; "L" and ";" are pieces
\* of their own, so that &SIG_TYPE[1..len - 1] drops exactly those two
ToStr(n) ==
    CASE n = 0 -> "0" [] n = 1 -> "1" [] n = 2 -> "2" [] n = 3 -> "3"
      [] n = 4 -> "4" [] n = 5 -> "5" [] n = 6 -> "6" [] n = 7 -> "7"
      [] n = 8 -> "8" [] n = 9 -> "9" [] n = 10 -> "10" [] n = 11 -> "11"
      [] n = 12 -> "12"
      [] OTHER -> ToString(n)

ObjectSig == <<"L", "java/lang/Object", ";">>
StringSig == <<"L", "java/lang/String", ";">>
ArrayListSig == <<"L", "java/util/ArrayList", ";">>
\* RESULT_JNI_SIGNATURE, "LResult;" unless the build overrides it
ResultSig == <<"L", "Result", ";">>
\* TUPLE_JNI_PREFIX, "LTuple" unless the build overrides it
TuplePrefix == <<"L", "Tuple">>
\* the prefix and the closing ";" without the arity
format_tuple_sig_no_dim(jni_prefix, dim) == jni_prefix \o <<";">>

\* TupleConfig::get_tuple_sig: format!("{}{};", jni_prefix, dim)
format_tuple_sig(jni_prefix, dim) == jni_prefix \o <<ToStr(dim), ";">>

\* the descriptor the default build hands impl_tuple_complete! for an arity
get_tuple_sig(dim) == format_tuple_sig(TuplePrefix, dim)

\* a variable of the build environment: unset, or set to a string
Unset == [set |-> FALSE, val |-> <<>>]
SetTo(x) == [set |-> TRUE, val |-> x]

\* env::var(X).unwrap_or_else(|_| default)
env_var_or(v, default) == IF v.set THEN v.val ELSE default

\* the build with neither RESULT_JNI_SIGNATURE nor TUPLE_JNI_PREFIX set
DefaultBuild == [result |-> Unset, prefix |-> Unset]

\* config::RESULT_JNI_SIGNATURE as build.rs writes it
result_jni_signature(b) == env_var_or(b.result, ResultSig)

\* tuple_jni_prefix of create_impl_tuple_macros
tuple_jni_prefix(b) == env_var_or(b.prefix, TuplePrefix)

RECURSIVE Repeat(_, _)
Repeat(s, n) == IF n = 0 THEN <<>> ELSE s \o Repeat(s, n - 1)

\* ---------------------------------------------------------------- types
TI32 == [k |-> "i32"]
TBool == [k |-> "bool"]
TChar == [k |-> "char"]
TI8 == [k |-> "i8"]
TI16 == [k |-> "i16"]
TI64 == [k |-> "i64"]
\* Box<[bool]>
TBoolArray == [k |-> "BoolArray"]
TString == [k |-> "String"]
TJObject == [k |-> "JObject"]
TUnit == [k |-> "unit"]
TOption(T) == [k |-> "Option", of |-> T]
TResult(O, E) == [k |-> "Result", ok |-> O, err |-> E]
TVec(T) == [k |-> "Vec", of |-> T]
TTuple(ts) == [k |-> "Tuple", of |-> ts]

\* Signature::SIG_TYPE in the crate as the build b configured it
RECURSIVE SIG_TYPE_in(_, _)
SIG_TYPE_in(T, b) ==
    CASE T.k = "i32" -> <<"I">>
      [] T.k = "bool" -> <<"Z">>
      [] T.k = "char" -> <<"C">>
      [] T.k = "i8" -> <<"B">>
      [] T.k = "i16" -> <<"S">>
      [] T.k = "i64" -> <<"J">>
      [] T.k = "unit" -> <<"V">>
      [] T.k = "BoolArray" -> <<"[", "Z">>
      [] T.k = "String" -> StringSig
      [] T.k = "JObject" -> ObjectSig
      [] T.k = "Vec" -> ArrayListSig
      [] T.k = "Option" -> SIG_TYPE_in(T.of, b)
      [] T.k = "Result" -> result_jni_signature(b)
      [] T.k = "Tuple" -> format_tuple_sig(tuple_jni_prefix(b), Len(T.of))

\* Signature::SIG_TYPE
SIG_TYPE(T) == SIG_TYPE_in(T, DefaultBuild)

\* IntoJavaValue::Target
TargetOf(T) ==
    CASE T.k = "i32" -> "jint"
      [] T.k = "bool" -> "jboolean"
      [] T.k = "char" -> "jchar"
      [] T.k = "i8" -> "jbyte"
      [] T.k = "i16" -> "jshort"
      [] T.k = "i64" -> "jlong"
      [] T.k = "unit" -> "unit"
      [] T.k = "String" -> "jobject"
      [] T.k = "BoolArray" -> "jobject"
      [] OTHER -> "JObject"

\* FromJavaValue::Source
SourceOf(T) ==
    CASE T.k = "i32" -> "jint"
      [] T.k = "bool" -> "jboolean"
      [] T.k = "char" -> "jchar"
      [] T.k = "i8" -> "jbyte"
      [] T.k = "i16" -> "jshort"
      [] T.k = "i64" -> "jlong"
      [] T.k = "unit" -> "unit"
      [] T.k = "String" -> "JString"
      [] T.k = "BoolArray" -> "jobject"
      [] OTHER -> "JObject"

\* --------------------------------------------------------------- values
\* native values
JInt(n) == [k |-> "jint", v |-> n]
JShort(n) == [k |-> "jshort", v |-> n]
JLong(n) == [k |-> "jlong", v |-> n]
\* a char is its scalar value; a jchar is a 16-bit unit
Char(n) == [k |-> "char", v |-> n]
JChar(n) == [k |-> "jchar", v |-> n]
Bool(b) == [k |-> "bool", v |-> b]
Str(x) == [k |-> "String", v |-> x]
Unit == [k |-> "unit"]
None == [k |-> "None"]
Some(x) == [k |-> "Some", v |-> x]
ROk(x) == [k |-> "Ok", v |-> x]
RErr(x) == [k |-> "Err", v |-> x]
VecOf(xs) == [k |-> "Vec", v |-> xs]
TupleOf(xs) == [k |-> "Tuple", v |-> xs]

\* foreign values: primitives and object handles (an object is its class and
\* its content; Null is the null handle)
JBoolean(n) == [k |-> "jboolean", v |-> n]
JByte(n) == [k |-> "jbyte", v |-> n]
Null == [k |-> "null", cls |-> <<>>, f |-> 0]
JObj(cls, f) == [k |-> "obj", cls |-> cls, f |-> f]
is_null(s) == s.k = "null"
IntegerObj(n) == JObj(<<"java/lang/Integer">>, n)
BooleanObj(n) == JObj(<<"java/lang/Boolean">>, n)
StringObj(x) == JObj(<<"java/lang/String">>, x)
PlainObj(n) == JObj(<<"java/lang/Object">>, n)
ListObj(cap, xs) == JObj(<<"java/util/ArrayList">>, [cap |-> cap, elems |-> xs])
ResultObj(tag, value) == JObj(<<"Result">>, [tag |-> tag, value |-> value])
TupleObj(xs) == JObj(<<"Tuple", ToStr(Len(xs))>>, xs)
\* the object the foreign class Tuple0 keeps in its static field INSTANCE
Tuple0Instance == JObj(<<"Tuple", "0">>, <<>>)

\* ------------------------------------------------------------- outcomes
\* a call returns a value, returns Err(e), or panics; it also leaves the
\* foreign-runtime operations it issued and the cache as it left it
Ok(v, log, c) == [st |-> "ok", val |-> v, log |-> log, cache |-> c]
Err(e, log, c) == [st |-> "err", val |-> [k |-> "error", e |-> e], log |-> log, cache |-> c]
Panicked(m, log, c) == [st |-> "panic", val |-> [k |-> "panic", m |-> m], log |-> log, cache |-> c]
\* a call the JNI specification leaves undefined
Undefined(m, log, c) == [st |-> "ub", val |-> [k |-> "ub", m |-> m], log |-> log, cache |-> c]
Jni(name, a) == [op |-> name, a |-> a]

\* run G on the value and cache of r when r returned a value; otherwise the
\* failure of r is the result
Bind(r, G(_, _)) ==
    CHOOSE out \in
        {IF x.st # "ok" THEN x
         ELSE CHOOSE o \in {[y EXCEPT !.log = x.log \o y.log] : y \in {G(x.val, x.cache)}} : TRUE
            : x \in {r}} : TRUE

\* the ? operator turns nothing; unwrap() turns Err into a panic
Unwrap(r) == IF r.st = "err" THEN Panicked(r.val.e, r.log, r.cache) ELSE r

\* ---------------------------------------------------------------- cache
Has(c, key) == key \in DOMAIN c
Store(c, key, v) == [y \in DOMAIN c \cup {key} |-> IF y = key THEN v ELSE c[y]]
EmptyCache == [y \in {} |-> Null]

GlobalRefTo(cls) == [k |-> "gref", cls |-> cls]
MemberId(kind, cls, name, sig) == [k |-> kind, cls |-> cls, name |-> name, sig |-> sig]

\* ------------------------------------------------- the foreign runtime
\* the largest tuple arity of the default TUPLE_IMPL_STRING
LastArity == 12

UserClasses == {<<"Result">>, <<"java/util/ArrayList">>, <<"java/lang/Object">>}
                 \cup {<<"Tuple", ToStr(n)>> : n \in 0..(MaxArity + 1)}

\* what GetFieldID / GetStaticFieldID / GetMethodID find in the foreign
\* classes: Result has tag: byte and value: Object and a (byte, Object)
\* constructor; TupleN has t0..t(N-1): Object and an N-Object constructor;
\* Tuple0 has the static field INSTANCE; ArrayList has its (int) constructor
JvmHasMember(kind, cls, name, sig, e) ==
    CASE cls = <<"Result">> ->
            \/ kind = "field" /\ name = <<"tag">> /\ sig = <<"B">>
            \/ kind = "field" /\ name = <<"value">> /\ sig = ObjectSig
            \/ kind = "method" /\ name = <<"<init>">>
                 /\ sig = <<"(", "B">> \o ObjectSig \o <<")V">>
      [] cls = <<"java/util/ArrayList">> ->
            kind = "method" /\ name = <<"<init>">> /\ sig = <<"(", "I", ")V">>
      [] Len(cls) = 2 /\ cls[1] = "Tuple" /\ cls[2] = "0" ->
            kind = "static_field" /\ name = <<"INSTANCE">> /\ sig = e.instance_sig
      [] Len(cls) = 2 /\ cls[1] = "Tuple" ->
            \E n \in 1..LastArity :
                /\ cls[2] = ToStr(n)
                /\ \/ /\ kind = "field"
                      /\ \E i \in 0..(n - 1) : name = <<"t", ToStr(i)>>
                      /\ sig = ObjectSig
                   \/ /\ kind = "method"
                      /\ name = <<"<init>">>
                      /\ sig = <<"(">> \o Repeat(ObjectSig, n) \o <<")V">>
      [] OTHER -> FALSE

\* init_global_class_ref: find_class on the descriptor without its first and
\* last character, then new_global_ref; both unwrapped
init_global_class_ref(sig, c, e) ==
    LET class_name == SubSeq(sig, 2, Len(sig) - 1) IN
    IF class_name \in e.classes
    THEN Ok(GlobalRefTo(class_name),
            <<Jni("find_class", class_name), Jni("new_global_ref", class_name)>>, c)
    ELSE Panicked("find_class", <<Jni("find_class", class_name)>>, c)

\* get_jclass of the impl owning the static JCLASS_REF
get_jclass(own, sig, c, e) ==
    LET key == own \o <<"JCLASS_REF">> IN
    IF Has(c, key)
    THEN Ok(c[key].cls, <<Jni("new_local_ref", c[key].cls)>>, c)
    ELSE Bind(init_global_class_ref(sig, c, e),
              LAMBDA g, c2 : Ok(g.cls, <<Jni("new_local_ref", g.cls)>>, Store(c2, key, g)))

\* get_field_id / get_static_field_id / get_method_id: Self::get_jclass, then
\* the lookup, unwrapped
get_member_id(kind, own, sig, name, msig, c, e) ==
    Bind(get_jclass(own, sig, c, e),
         LAMBDA cls, c2 :
            IF JvmHasMember(kind, cls, name, msig, e)
            THEN Ok(MemberId(kind, cls, name, msig), <<Jni("get_id", <<kind, name, msig>>)>>, c2)
            ELSE Panicked("member lookup", <<Jni("get_id", <<kind, name, msig>>)>>, c2))

\* a member id looked up on every use
uncached_member(key, kind, own, sig, name, msig, c, e) ==
    get_member_id(kind, own, sig, name, msig, c, e)

\* a static OnceLock holding a member id: X.get_or_init(|| Self::get_..._id(..))
cached_member(key, kind, own, sig, name, msig, c, e) ==
    IF Has(c, key) THEN Ok(c[key], <<>>, c)
    ELSE Bind(get_member_id(kind, own, sig, name, msig, c, e),
              LAMBDA id, c2 : Ok(id, <<>>, Store(c2, key, id)))

\* what a constructor of the foreign classes builds from its arguments:
\* Result(tag, value) and TupleN(t0, ..) keep them in their fields;
\* ArrayList(capacity) is an empty list and throws on a negative capacity
JvmNewObject(cls, args, c) ==
    CASE cls = <<"Result">> ->
            Ok(ResultObj(args[1].v, args[2]), <<Jni("new_object", <<cls, args>>)>>, c)
      [] cls = <<"java/util/ArrayList">> ->
            IF args[1].v < 0
            THEN Err("IllegalArgumentException", <<Jni("new_object", <<cls, args>>)>>, c)
            ELSE Ok(ListObj(args[1].v, <<>>), <<Jni("new_object", <<cls, args>>)>>, c)
      [] OTHER -> Ok(JObj(cls, args), <<Jni("new_object", <<cls, args>>)>>, c)

\* the value of an instance field of a foreign object
JvmFieldValue(s, name) ==
    IF s.cls = <<"Result">>
    THEN (IF name = <<"tag">> THEN JByte(s.f.tag) ELSE s.f.value)
    ELSE s.f[1 + CHOOSE i \in 0..LastArity : ToStr(i) = name[2]]

\* env.get_field_unchecked(s, field_id, ty): Err(NullPtr) on a null handle
get_field_unchecked(s, fid, c) ==
    IF is_null(s) THEN Err("NullPtr", <<>>, c)
    ELSE IF s.cls # fid.cls
         THEN Undefined("field id of another class", <<Jni("get_field", fid.name)>>, c)
         ELSE Ok(JvmFieldValue(s, fid.name), <<Jni("get_field", fid.name)>>, c)

\* ------------------------------------------------- derived parsed forms
\* JavaType::from_str / TypeSignature::from_str / ReturnType::from_str of a
\* descriptor: a function of the descriptor and of the form asked for
ParsedForms == {"JAVA_TYPE", "TYPE_SIGNATURE", "RETURN_TYPE"}
from_str(form, sig) == [k |-> "parsed", form |-> form, sig |-> sig]

\* the impl block a type takes its Signature functions from: one per
\* impl_signature! call (and per generated tuple arity), whatever the type
\* arguments, and with it one set of the statics JAVA_TYPE, TYPE_SIGNATURE and
\* RETURN_TYPE
signature_impl(T) ==
    CASE T.k = "Tuple" -> <<"Tuple", ToStr(Len(T.of))>>
      [] OTHER -> <<T.k>>

\* get_java_type / get_type_signature / get_return_type of impl_signature!(func):
\* X.get_or_init(|| ..::from_str(<Self as Signature>::SIG_TYPE).unwrap()).clone()
get_parsed(form, T, c) ==
    LET key == signature_impl(T) \o <<form>> IN
    IF Has(c, key) THEN Ok(c[key], <<>>, c)
    ELSE Ok(from_str(form, SIG_TYPE(T)), <<>>, Store(c, key, from_str(form, SIG_TYPE(T))))

\* ------------------------------------------------------ value envelope
\* JValue: the variant it was built with and what it carries
JValueOf(tag, x) == [k |-> "jvalue", tag |-> tag, v |-> x]
\* the bits of a primitive variant
Prim(n) == [k |-> "prim", cls |-> <<>>, f |-> n]
\* JValue::type_name
type_name(value) == value.tag

\* the impls TryFrom<JValueWrapper> for jboolean, jbyte, jchar, jdouble,
\* jfloat, jint, jshort, jlong, (), JObject and JString, named by the kind
\* they put in their error
ExtractKinds == {"bool", "byte", "char", "double", "float", "int", "short", "long",
                 "void", "object", "string"}

\* an extraction of short that also takes the int variant
jvalue_pattern_loose(kind) ==
    CASE kind = "short" -> {"short", "int"}
      [] kind = "string" -> {"object"}
      [] OTHER -> {kind}

\* the variant the match of each impl accepts: JValue::Bool for jboolean, ..,
\* JValue::Object for JObject and for JString
jvalue_pattern(kind) ==
    CASE kind = "string" -> {"object"}
      [] OTHER -> {kind}

\* TryFrom<JValueWrapper>::try_from of the impl for a kind
jvalue_try_from(kind, value, c) ==
    IF value.tag \in jvalue_pattern(kind)
    THEN Ok([k |-> kind, v |-> value.v], <<>>, c)
    ELSE Err([k |-> "WrongJValueType", expected |-> kind, actual |-> type_name(value)],
             <<>>, c)

\* ---------------------------------------------------- boxing layer
\* an autobox of the unit value that hands out the null handle
unit_autobox_null(c, e) == Ok(Null, <<>>, c)

\* JavaValue for (): the impl of convert/mod.rs
unit_autobox_core(c, e) == Panicked("called JavaValue::autobox on unit value", <<>>, c)

\* JavaValue for (): the impl impl_tuple_conversion_tuple0 generates. The
\* static field id of JavaTuple0.INSTANCE is cached in STATIC_FIELD_ID, then the
\* field is read through JavaTuple0::get_jclass
unit_autobox_tuple0(c, e) ==
    Bind(cached_member(<<"unit", "autobox", "STATIC_FIELD_ID">>, "static_field",
                       <<"JavaTuple0">>, get_tuple_sig(0), <<"INSTANCE">>,
                       get_tuple_sig(0), c, e),
         LAMBDA fid, c2 :
            Bind(get_jclass(<<"JavaTuple0">>, get_tuple_sig(0), c2, e),
                 LAMBDA cls, c3 :
                    Ok(Tuple0Instance, <<Jni("get_static_field", <<cls, fid.name>>)>>, c3)))

\* the convert::tuple module, and with it the second impl, is compiled only
\* with the feature jni_tuple
unit_autobox(c, e) ==
    IF e.jni_tuple THEN unit_autobox_tuple0(c, e) ELSE unit_autobox_core(c, e)

\* JavaValue::unbox for (): both impls ignore the handle and the environment
unit_unbox(s, c, e) == Ok(Unit, <<>>, c)

\* JavaValue::autobox of each Target type
autobox(jt, v, c, e) ==
    CASE jt = "jint" -> Ok(IntegerObj(v.v), <<Jni("Integer.valueOf", v.v)>>, c)
      [] jt = "jboolean" -> Ok(BooleanObj(v.v), <<Jni("Boolean.valueOf", v.v)>>, c)
      [] jt = "jchar" -> Ok(JObj(<<"java/lang/Character">>, v.v), <<Jni("Character.valueOf", v.v)>>, c)
      [] jt = "jbyte" -> Ok(JObj(<<"java/lang/Byte">>, v.v), <<Jni("Byte.valueOf", v.v)>>, c)
      [] jt = "jshort" -> Ok(JObj(<<"java/lang/Short">>, v.v), <<Jni("Short.valueOf", v.v)>>, c)
      [] jt = "jlong" -> Ok(JObj(<<"java/lang/Long">>, v.v), <<Jni("Long.valueOf", v.v)>>, c)
      [] jt = "unit" -> unit_autobox(c, e)
      [] OTHER -> Ok(v, <<>>, c)

\* JavaValue::unbox of each Source type: the unboxing accessor is called on
\* the handle; jni-rs refuses a null receiver with Err(NullPtr), unwrapped here
unbox(jt, s, c, e) ==
    CASE jt = "jint" ->
            IF is_null(s) THEN Panicked("NullPtr", <<>>, c)
            ELSE IF s.cls = <<"java/lang/Integer">>
                 THEN Ok(JInt(s.f), <<Jni("intValue", s)>>, c)
                 ELSE Undefined("intValue on another class", <<Jni("intValue", s)>>, c)
      [] jt = "jboolean" ->
            IF is_null(s) THEN Panicked("NullPtr", <<>>, c)
            ELSE IF s.cls = <<"java/lang/Boolean">>
                 THEN Ok(JBoolean(s.f), <<Jni("booleanValue", s)>>, c)
                 ELSE Undefined("booleanValue on another class", <<Jni("booleanValue", s)>>, c)
      [] jt \in {"jchar", "jbyte", "jshort", "jlong"} ->
            IF is_null(s) THEN Panicked("NullPtr", <<>>, c)
            ELSE IF s.cls \in {<<"java/lang/Character">>, <<"java/lang/Byte">>,
                               <<"java/lang/Short">>, <<"java/lang/Long">>}
                 THEN Ok([k |-> jt, v |-> s.f], <<Jni("unboxing accessor", s)>>, c)
                 ELSE Undefined("unboxing accessor on another class",
                                <<Jni("unboxing accessor", s)>>, c)
      [] jt = "unit" -> unit_unbox(s, c, e)
      [] OTHER -> Ok(s, <<>>, c)

\* ------------------------------------------------ boolean array adapter
\* a Box<[bool]> and a jbooleanArray, each the sequence of its elements
BoolSlice(xs) == [k |-> "BoolSlice", v |-> xs]
JBooleanArray(xs) == [k |-> "jbooleanArray", v |-> xs]

\* Vec::with_capacity(n): room for n elements, none of them in the vector
vec_with_capacity(n) == [cap |-> n, elems |-> <<>>]

\* Vec::into_boxed_slice: the elements of the vector, spare capacity dropped
into_boxed_slice(vec) == vec.elems

\* env.get_boolean_array_region(array, start, buf): fills the whole of buf
\* from the array, or fails when the array ends before buf does
get_boolean_array_region(arr, start, buf, c) ==
    IF start + Len(buf) > Len(arr.v)
    THEN Err("ArrayIndexOutOfBounds", <<Jni("get_boolean_array_region", Len(buf))>>, c)
    ELSE Ok([i \in 1..Len(buf) |-> arr.v[start + i]],
            <<Jni("get_boolean_array_region", Len(buf))>>, c)

\* IntoJavaValue::into for Box<[bool]>
boolarray_into(v, c) ==
    LET len == Len(v.v)
        buf == [i \in 1..len |-> IF v.v[i] THEN 1 ELSE 0]
    IN  IF len > 2147483647
        THEN Panicked("new_boolean_array", <<Jni("new_boolean_array", len)>>, c)
        ELSE Ok(JBooleanArray(buf),
                <<Jni("new_boolean_array", len), Jni("set_boolean_array_region", buf)>>, c)

\* FromJavaValue::from for Box<[bool]>
boolarray_from(s, c) ==
    Bind(Ok(Len(s.v), <<Jni("get_array_length", s)>>, c),
         LAMBDA len, c1 :
    Bind(Unwrap(get_boolean_array_region(s, 0, into_boxed_slice(vec_with_capacity(len)), c1)),
         LAMBDA buf, c2 :
    Ok(BoolSlice([i \in 1..Len(buf) |-> buf[i] = 1]), <<>>, c2)))

\* ------------------------------------------- infallible leaf conversions
\* self as jchar: the low 16 bits of the scalar value
char_as_jchar(n) == n % 65536

\* a unit std::char::decode_utf16 cannot decode alone
is_surrogate(u) == u \in 55296..57343

\* IntoJavaValue::into for jint (blanket impl), bool, String, JObject
leaf_into(T, v, c, e) ==
    CASE T.k = "bool" -> Ok(JBoolean(IF v.v THEN 1 ELSE 0), <<>>, c)
      [] T.k = "BoolArray" -> boolarray_into(v, c)
      [] T.k = "char" -> Ok(JChar(char_as_jchar(v.v)), <<>>, c)
      [] T.k = "String" -> Ok(StringObj(v.v), <<Jni("new_string", v.v)>>, c)
      [] OTHER -> Ok(v, <<>>, c)

\* FromJavaValue::from for jint (blanket impl), bool, String, JObject
leaf_from(T, s, c, e) ==
    CASE T.k = "bool" -> Ok(Bool(s.v = 1), <<>>, c)
      [] T.k = "BoolArray" -> boolarray_from(s, c)
      [] T.k = "char" ->
            IF is_surrogate(s.v) THEN Panicked("DecodeUtf16Error", <<>>, c)
            ELSE Ok(Char(s.v), <<>>, c)
      [] T.k = "String" ->
            IF is_null(s) THEN Panicked("NullPtr", <<Jni("get_string", s)>>, c)
            ELSE Ok(Str(s.f), <<Jni("get_string", s)>>, c)
      [] OTHER -> Ok(s, <<>>, c)

RECURSIVE into(_, _, _, _)
RECURSIVE from(_, _, _, _)

\* ------------------------------------------------------- Option adapter
\* IntoJavaValue::into for Option<T>
option_into(T, v, c, e) ==
    IF v.k = "None" THEN Ok(Null, <<>>, c)
    ELSE Bind(into(T.of, v.v, c, e),
              LAMBDA j, c2 : autobox(TargetOf(T.of), j, c2, e))

\* FromJavaValue::from for Option<T> without the null test
option_from_unchecked(T, s, c, e) ==
    Bind(unbox(SourceOf(T.of), s, c, e),
         LAMBDA j, c2 : Bind(from(T.of, j, c2, e),
                             LAMBDA x, c3 : Ok(Some(x), <<>>, c3)))

\* FromJavaValue::from for Option<T>
option_from(T, s, c, e) ==
    IF is_null(s) THEN Ok(None, <<>>, c)
    ELSE Bind(unbox(SourceOf(T.of), s, c, e),
              LAMBDA j, c2 : Bind(from(T.of, j, c2, e),
                                  LAMBDA x, c3 : Ok(Some(x), <<>>, c3)))

RECURSIVE try_into(_, _, _, _)
RECURSIVE try_from(_, _, _, _)

\* the conversions of convert/safe.rs for the leaf types: those of
\* convert/unchecked.rs with the failure returned instead of raised
Caught(r) == IF r.st = "panic" THEN Err(r.val.m, r.log, r.cache) ELSE r
leaf_try_into(T, v, c, e) ==
    IF T.k = "String" /\ v.v \in e.unencodable
    THEN Err(v.v, <<Jni("new_string", v.v)>>, c)
    ELSE Caught(leaf_into(T, v, c, e))
leaf_try_from(T, s, c, e) == Caught(leaf_from(T, s, c, e))

\* ------------------------------------------------------- Result adapter
ResultCtorSig == <<"(", "B">> \o ObjectSig \o <<")V">>

\* the tag of the variants swapped
result_tag_swapped(v) == IF v.k = "Ok" THEN 1 ELSE 0

\* match self { Ok(ok) => (0i8, ..), Err(err) => (1i8, ..) }
result_tag(v) == IF v.k = "Ok" THEN 0 ELSE 1

\* the payload type of the variant
result_payload(T, v) == IF v.k = "Ok" THEN T.ok ELSE T.err

\* IntoJavaValue::into for Result<Ok, Err>
result_into(T, v, c, e) ==
    Bind(cached_member(<<"Result", "into", "CTOR_ID">>, "method", <<"Result">>,
                       ResultSig, <<"<init>">>, ResultCtorSig, c, e),
         LAMBDA ctor, c2 :
    Bind(into(result_payload(T, v), v.v, c2, e),
         LAMBDA j, c3 :
    Bind(autobox(TargetOf(result_payload(T, v)), j, c3, e),
         LAMBDA value, c4 :
    Bind(get_jclass(<<"Result">>, ResultSig, c4, e),
         LAMBDA cls, c5 :
    Unwrap(JvmNewObject(cls, <<JByte(result_tag(v)), value>>, c5))))))

\* TryIntoJavaValue::try_into for Result<Ok, Err>
result_try_into(T, v, c, e) ==
    Bind(cached_member(<<"Result", "try_into", "CTOR_ID">>, "method", <<"Result">>,
                       ResultSig, <<"<init>">>, ResultCtorSig, c, e),
         LAMBDA ctor, c2 :
    Bind(try_into(result_payload(T, v), v.v, c2, e),
         LAMBDA j, c3 :
    Bind(autobox(TargetOf(result_payload(T, v)), j, c3, e),
         LAMBDA value, c4 :
    Bind(get_jclass(<<"Result">>, ResultSig, c4, e),
         LAMBDA cls, c5 :
    JvmNewObject(cls, <<JByte(result_tag(v)), value>>, c5)))))

\* match tag { 0 => Ok(Ok::from(unbox(value))), 1 => Err(Err::from(unbox(value))),
\*             _ => unreachable!() } of FromJavaValue::from
result_from_match(T, tag, value, c, e) ==
    CASE tag = 0 ->
            Bind(unbox(SourceOf(T.ok), value, c, e), LAMBDA j, c2 :
            Bind(from(T.ok, j, c2, e), LAMBDA x, c3 : Ok(ROk(x), <<>>, c3)))
      [] tag = 1 ->
            Bind(unbox(SourceOf(T.err), value, c, e), LAMBDA j, c2 :
            Bind(from(T.err, j, c2, e), LAMBDA x, c3 : Ok(RErr(x), <<>>, c3)))
      [] OTHER -> Panicked("unreachable", <<>>, c)

\* the same match of TryFromJavaValue::try_from
result_try_from_match(T, tag, value, c, e) ==
    CASE tag = 0 ->
            Bind(unbox(SourceOf(T.ok), value, c, e), LAMBDA j, c2 :
            Bind(try_from(T.ok, j, c2, e), LAMBDA x, c3 : Ok(ROk(x), <<>>, c3)))
      [] tag = 1 ->
            Bind(unbox(SourceOf(T.err), value, c, e), LAMBDA j, c2 :
            Bind(try_from(T.err, j, c2, e), LAMBDA x, c3 : Ok(RErr(x), <<>>, c3)))
      [] OTHER -> Panicked("unreachable", <<>>, c)

\* FromJavaValue::from for Result<Ok, Err>
result_from(T, s, c, e) ==
    Bind(cached_member(<<"Result", "from", "TAG_FIELD_ID">>, "field", <<"Result">>,
                       ResultSig, <<"tag">>, <<"B">>, c, e),
         LAMBDA tag_id, c2 :
    Bind(Unwrap(get_field_unchecked(s, tag_id, c2)),
         LAMBDA tag, c3 :
    Bind(cached_member(<<"Result", "from", "VALUE_FIELD_ID">>, "field", <<"Result">>,
                       ResultSig, <<"value">>, ObjectSig, c3, e),
         LAMBDA value_id, c4 :
    Bind(Unwrap(get_field_unchecked(s, value_id, c4)),
         LAMBDA value, c5 :
    result_from_match(T, tag.v, value, c5, e)))))

\* TryFromJavaValue::try_from for Result<Ok, Err>
result_try_from(T, s, c, e) ==
    Bind(cached_member(<<"Result", "try_from", "TAG_FIELD_ID">>, "field", <<"Result">>,
                       ResultSig, <<"tag">>, <<"B">>, c, e),
         LAMBDA tag_id, c2 :
    Bind(get_field_unchecked(s, tag_id, c2),
         LAMBDA tag, c3 :
    Bind(cached_member(<<"Result", "try_from", "VALUE_FIELD_ID">>, "field", <<"Result">>,
                       ResultSig, <<"value">>, ObjectSig, c3, e),
         LAMBDA value_id, c4 :
    Bind(get_field_unchecked(s, value_id, c4),
         LAMBDA value, c5 :
    result_try_from_match(T, tag.v, value, c5, e)))))

\* ---------------------------------------------------------- Vec adapter
\* usize as i32 (for lengths below 2^32): the low 32 bits, read as signed
AsI32(n) == IF n <= 2147483647 THEN n ELSE ((n - 2147483647) - 2147483647) - 2

\* a constructor argument that ignores the length
vec_capacity_zero(v) == 0

\* JValue::Int(self.len() as i32)
vec_capacity(v) == AsI32(Len(v.v))

\* JList::from_env(env, obj): wraps the handle after resolving the method ids
\* of java/util/List; the handle itself is not inspected
JList_from_env(obj, c) == Ok(obj, <<Jni("JList::from_env", <<>>)>>, c)

\* list.add(el): List.add on the wrapped handle
list_add(list, el, c) ==
    IF is_null(list) THEN Err("NullPtr", <<>>, c)
    ELSE IF list.cls # <<"java/util/ArrayList">>
         THEN Undefined("List.add on another class", <<Jni("List.add", el)>>, c)
         ELSE Ok(ListObj(list.f.cap, Append(list.f.elems, el)), <<Jni("List.add", el)>>, c)

\* list.iter(): List.size on the wrapped handle, once
list_iter(list, c) ==
    IF is_null(list) THEN Err("NullPtr", <<>>, c)
    ELSE IF list.cls # <<"java/util/ArrayList">>
         THEN Undefined("List.size on another class", <<Jni("List.size", <<>>)>>, c)
         ELSE Ok(JInt(Len(list.f.elems)), <<Jni("List.size", <<>>)>>, c)

\* one step of the iterator: List.get(i)
list_get(list, i, c) == Ok(list.f.elems[i + 1], <<Jni("List.get", i)>>, c)

\* self.into_iter().map(|el| autobox(into(el))).for_each(|el| list.add(el).unwrap())
\* from element i (1-based): the iterator is lazy, so each element is
\* converted, boxed and appended before the next one is touched
RECURSIVE vec_add_all(_, _, _, _, _, _)
vec_add_all(T, v, i, list, c, e) ==
    IF i > Len(v.v) THEN Ok(list, <<>>, c)
    ELSE Bind(into(T.of, v.v[i], c, e),
              LAMBDA j, c2 :
         Bind(autobox(TargetOf(T.of), j, c2, e),
              LAMBDA b, c3 :
         Bind(Unwrap(list_add(list, b, c3)),
              LAMBDA l2, c4 : vec_add_all(T, v, i + 1, l2, c4, e))))

\* IntoJavaValue::into for Vec<T>
vec_into(T, v, c, e) ==
    Bind(cached_member(<<"Vec", "into", "CTOR_ID">>, "method", <<"Vec">>,
                       ArrayListSig, <<"<init>">>, <<"(", "I", ")V">>, c, e),
         LAMBDA ctor, c2 :
    Bind(get_jclass(<<"Vec">>, ArrayListSig, c2, e),
         LAMBDA cls, c3 :
    Bind(Unwrap(JvmNewObject(cls, <<JInt(vec_capacity(v))>>, c3)),
         LAMBDA obj, c4 :
    Bind(Unwrap(JList_from_env(obj, c4)),
         LAMBDA list, c5 : vec_add_all(T, v, 1, list, c5, e)))))

\* list.iter().unwrap().map(|el| T::from(U::unbox(el, env), env)).collect()
\* from index i (0-based) up to the size read by iter()
RECURSIVE vec_collect(_, _, _, _, _, _)
vec_collect(T, list, i, n, c, e) ==
    IF i >= n THEN Ok(<<>>, <<>>, c)
    ELSE Bind(list_get(list, i, c),
              LAMBDA el, c2 :
         Bind(unbox(SourceOf(T.of), el, c2, e),
              LAMBDA j, c3 :
         Bind(from(T.of, j, c3, e),
              LAMBDA x, c4 :
         Bind(vec_collect(T, list, i + 1, n, c4, e),
              LAMBDA rest, c5 : Ok(<<x>> \o rest, <<>>, c5)))))

\* FromJavaValue::from for Vec<T>
vec_from(T, s, c, e) ==
    Bind(Unwrap(JList_from_env(s, c)),
         LAMBDA list, c2 :
    Bind(Unwrap(list_iter(list, c2)),
         LAMBDA n, c3 :
    Bind(vec_collect(T, list, 0, n.v, c3, e),
         LAMBDA xs, c4 : Ok(VecOf(xs), <<>>, c4))))

\* -------------------------------------------------------- Tuple adapter
\* constructor arguments that convert every element whatever the earlier ones
\* returned, and report the first failure at the end
RECURSIVE tuple_args_eager(_, _, _, _, _, _)
tuple_args_eager(fam, T, v, i, c, e) ==
    IF i > Len(T.of) THEN Ok(<<>>, <<>>, c)
    ELSE LET r == IF fam = "safe" THEN try_into(T.of[i], v.v[i], c, e)
                                  ELSE into(T.of[i], v.v[i], c, e)
             rest == tuple_args_eager(fam, T, v, i + 1, r.cache, e)
         IN IF r.st # "ok" THEN [r EXCEPT !.log = r.log \o rest.log, !.cache = rest.cache]
            ELSE IF rest.st # "ok" THEN [rest EXCEPT !.log = r.log \o rest.log]
            ELSE Ok(<<r.val>> \o rest.val, r.log \o rest.log, rest.cache)

\* format!("({})V", "Ljava/lang/Object;".repeat(count_tuple_elements!(..)))
tuple_ctor_sig(n) == <<"(">> \o Repeat(ObjectSig, n) \o <<")V">>

\* the impl of an arity: its statics are those of the macro expansion, one set
\* for every choice of element types
tuple_own(T) == <<"Tuple", ToStr(Len(T.of))>>

\* the constructor arguments, left to right from element i (1-based):
\* $T::Target::autobox($T::into(self.$idx, env), env), or, in the fallible
\* family, $T::Target::autobox($T::try_into(self.$idx, env)?, env)
RECURSIVE tuple_args(_, _, _, _, _, _)
tuple_args(fam, T, v, i, c, e) ==
    IF i > Len(T.of) THEN Ok(<<>>, <<>>, c)
    ELSE Bind(IF fam = "safe" THEN try_into(T.of[i], v.v[i], c, e)
                              ELSE into(T.of[i], v.v[i], c, e),
              LAMBDA j, c2 :
         Bind(autobox(TargetOf(T.of[i]), j, c2, e),
              LAMBDA b, c3 :
         Bind(tuple_args(fam, T, v, i + 1, c3, e),
              LAMBDA rest, c4 : Ok(<<b>> \o rest, <<>>, c4))))

\* IntoJavaValue::into for ($($T,)+)
tuple_into(T, v, c, e) ==
    Bind(cached_member(tuple_own(T) \o <<"into", "CTOR_ID">>, "method", tuple_own(T),
                       SIG_TYPE(T), <<"<init>">>, tuple_ctor_sig(Len(T.of)), c, e),
         LAMBDA ctor, c2 :
    Bind(get_jclass(tuple_own(T), SIG_TYPE(T), c2, e),
         LAMBDA cls, c3 :
    Bind(tuple_args("unchecked", T, v, 1, c3, e),
         LAMBDA args, c4 :
    Unwrap(JvmNewObject(cls, args, c4)))))

\* TryIntoJavaValue::try_into for ($($T,)+)
tuple_try_into(T, v, c, e) ==
    Bind(cached_member(tuple_own(T) \o <<"try_into", "CTOR_ID">>, "method", tuple_own(T),
                       SIG_TYPE(T), <<"<init>">>, tuple_ctor_sig(Len(T.of)), c, e),
         LAMBDA ctor, c2 :
    Bind(get_jclass(tuple_own(T), SIG_TYPE(T), c2, e),
         LAMBDA cls, c3 :
    Bind(tuple_args("safe", T, v, 1, c3, e),
         LAMBDA args, c4 :
    JvmNewObject(cls, args, c4))))

\* the let-blocks of the decode, from field t(i) (0-based) on: the field id is
\* looked up under the name t(i) and the descriptor of the ELEMENT type and kept
\* in the block's static FIELD_ID; the field is read as an object, unboxed and
\* converted
RECURSIVE tuple_fields(_, _, _, _, _, _)
tuple_fields(fam, T, s, i, c, e) ==
    IF i >= Len(T.of) THEN Ok(<<>>, <<>>, c)
    ELSE
    Bind(cached_member(tuple_own(T) \o <<(IF fam = "safe" THEN "try_from" ELSE "from"),
                                         "FIELD_ID", ToStr(i)>>,
                       "field", tuple_own(T), SIG_TYPE(T), <<"t", ToStr(i)>>,
                       SIG_TYPE(T.of[i + 1]), c, e),
         LAMBDA fid, c2 :
    Bind(IF fam = "safe" THEN get_field_unchecked(s, fid, c2)
                         ELSE Unwrap(get_field_unchecked(s, fid, c2)),
         LAMBDA h, c3 :
    Bind(unbox(SourceOf(T.of[i + 1]), h, c3, e),
         LAMBDA j, c4 :
    Bind(IF fam = "safe" THEN try_from(T.of[i + 1], j, c4, e)
                         ELSE from(T.of[i + 1], j, c4, e),
         LAMBDA x, c5 :
    Bind(tuple_fields(fam, T, s, i + 1, c5, e),
         LAMBDA rest, c6 : Ok(<<x>> \o rest, <<>>, c6))))))

\* FromJavaValue::from for ($($T,)+)
tuple_from(T, s, c, e) ==
    Bind(tuple_fields("unchecked", T, s, 0, c, e),
         LAMBDA xs, c2 : Ok(TupleOf(xs), <<>>, c2))

\* TryFromJavaValue::try_from for ($($T,)+)
tuple_try_from(T, s, c, e) ==
    Bind(tuple_fields("safe", T, s, 0, c, e),
         LAMBDA xs, c2 : Ok(TupleOf(xs), <<>>, c2))

\* ------------------------------------------------------------ dispatch
into(T, v, c, e) ==
    CASE T.k = "Option" -> option_into(T, v, c, e)
      [] T.k = "Result" -> result_into(T, v, c, e)
      [] T.k = "Tuple" -> tuple_into(T, v, c, e)
      [] T.k = "Vec" -> vec_into(T, v, c, e)
      [] OTHER -> leaf_into(T, v, c, e)

from(T, s, c, e) ==
    CASE T.k = "Option" -> option_from(T, s, c, e)
      [] T.k = "Result" -> result_from(T, s, c, e)
      [] T.k = "Tuple" -> tuple_from(T, s, c, e)
      [] T.k = "Vec" -> vec_from(T, s, c, e)
      [] OTHER -> leaf_from(T, s, c, e)

try_into(T, v, c, e) ==
    CASE T.k = "Result" -> result_try_into(T, v, c, e)
      [] T.k = "Tuple" -> tuple_try_into(T, v, c, e)
      [] OTHER -> leaf_try_into(T, v, c, e)

try_from(T, s, c, e) ==
    CASE T.k = "Result" -> result_try_from(T, s, c, e)
      [] T.k = "Tuple" -> tuple_try_from(T, s, c, e)
      [] OTHER -> leaf_try_from(T, s, c, e)

\* ----------------------------------------------------- bounded inputs
LeafTypes == {TI32, TBool, TString, TJObject}

\* char values: the ends of the two ranges of the basic plane, and scalar
\* values above U+FFFF spread over the supplementary planes
CharSamples == {0, 65, 55295, 57344, 65535, 1114111}
                  \cup {65536 + 3301 * i : i \in 0..MaxSupp}
PrimTypes == {TI32, TBool, TChar, TI8, TI16, TI64}

RECURSIVE Nested(_)
Nested(n) ==
    IF n = 0 THEN LeafTypes
    ELSE Nested(n - 1) \cup {TOption(T) : T \in Nested(n - 1)}

OptionTypes == {T \in Nested(MaxNest) : T.k = "Option"}

ObjA == PlainObj(1)
ObjB == PlainObj(2)

RECURSIVE ValuesOf(_)
ValuesOf(T) ==
    CASE T.k = "i32" -> {JInt(-1), JInt(5), JInt(7)}
      [] T.k = "bool" -> {Bool(TRUE), Bool(FALSE)}
      [] T.k = "String" -> {Str("boom"), Str(""), Str("bang")}
      [] T.k = "JObject" -> {Null, ObjA, ObjB}
      [] T.k = "unit" -> {Unit}
      [] T.k = "char" -> {Char(n) : n \in CharSamples}
      [] T.k = "BoolArray" ->
            UNION {{BoolSlice(xs) : xs \in [1..n -> BOOLEAN]} : n \in 0..MaxSlice}
      [] T.k = "i8" -> {JByte(-128), JByte(-1), JByte(0), JByte(127)}
      [] T.k = "i16" -> {JShort(-32768), JShort(0), JShort(32767)}
      [] T.k = "i64" -> {JLong(-2147483647), JLong(0), JLong(2147483647)}
      [] T.k = "Option" -> {None} \cup {Some(x) : x \in ValuesOf(T.of)}
      [] T.k = "Result" -> {ROk(x) : x \in ValuesOf(T.ok)} \cup {RErr(x) : x \in ValuesOf(T.err)}
      [] T.k = "Vec" ->
            {VecOf(xs) : xs \in UNION {[1..n -> ValuesOf(T.of)] : n \in 0..MaxLen}}
      [] T.k = "Tuple" ->
            {TupleOf(xs) : xs \in {f \in [1..Len(T.of) -> UNION {ValuesOf(T.of[i]) : i \in 1..Len(T.of)}] :
                                      \A i \in 1..Len(T.of) : f[i] \in ValuesOf(T.of[i])}}

\* the object a foreign caller holds for a foreign value
Boxed(j) ==
    IF j.k = "jint" THEN IntegerObj(j.v)
    ELSE IF j.k = "jboolean" THEN BooleanObj(j.v) ELSE j

\* tag bytes a foreign Result object may carry besides 0 and 1
BadTags == {2, -1}

\* what the foreign side may hand to from() for a type
RECURSIVE ForeignOf(_)
ForeignOf(T) ==
    CASE T.k = "i32" -> {JInt(5), JInt(-1)}
      [] T.k = "bool" -> {JBoolean(0), JBoolean(1)}
      [] T.k = "String" -> {StringObj("boom")}
      [] T.k = "JObject" -> {Null, PlainObj(3)}
      [] T.k = "unit" -> {Null, Tuple0Instance, PlainObj(3)}
      [] T.k = "char" -> {JChar(0), JChar(65), JChar(55296), JChar(57343), JChar(65535)}
      [] T.k = "BoolArray" ->
            UNION {{JBooleanArray(xs) : xs \in [1..n -> {0, 1, 2}]} : n \in 0..MaxSlice}
      [] T.k = "i8" -> {JByte(-128), JByte(127)}
      [] T.k = "i16" -> {JShort(-32768), JShort(32767)}
      [] T.k = "i64" -> {JLong(-1), JLong(1)}
      [] T.k = "Option" -> {Null} \cup {Boxed(j) : j \in ForeignOf(T.of)}
      [] T.k = "Result" ->
            {Null} \cup {ResultObj(0, Boxed(j)) : j \in ForeignOf(T.ok)}
                   \cup {ResultObj(1, Boxed(j)) : j \in ForeignOf(T.err)}
                   \cup {ResultObj(t, h) : t \in BadTags, h \in {Null, IntegerObj(5)}}
      [] T.k = "Vec" ->
            {Null, ListObj(0, <<>>)} \cup {ListObj(10, <<Boxed(j)>>) : j \in ForeignOf(T.of)}
      [] T.k = "Tuple" ->
            {Null} \cup
            {TupleObj(xs) : xs \in {f \in [1..Len(T.of) -> UNION {{Boxed(j) : j \in ForeignOf(T.of[i])} : i \in 1..Len(T.of)}] :
                                       \A i \in 1..Len(T.of) : f[i] \in {Boxed(j) : j \in ForeignOf(T.of[i])}}}

ResultTypes == {TResult(TI32, TString), TResult(TString, TI32),
                TResult(TOption(TI32), TJObject),
                TResult(TBool, TOption(TOption(TI32)))}
\* the types whose fallible conversions are in this repository's sources
TryResultTypes == {T \in ResultTypes : T.ok \in LeafTypes /\ T.err \in LeafTypes}

\* the types that carry a unit value to the boxing layer
UnitTypes == {TOption(TUnit), TResult(TUnit, TString), TResult(TI32, TUnit)}

\* sequences of elements whose encoding is never the null handle
VecTypes == {TVec(TI32), TVec(TString), TVec(TBool)}

\* tuples of every arity 1..MaxArity over a primitive and an object element
TupleElems == {TI32, TJObject}
TupleTypes == UNION {{TTuple(ts) : ts \in [1..n -> TupleElems]} : n \in 1..MaxArity}

\* find_class resolves the bridge's classes, or the class path lacks them
ClassPaths == {UserClasses, {}}
Env(classes) == [classes |-> classes, jni_tuple |-> cfg.jni_tuple,
                 instance_sig |-> cfg.instance_sig, unencodable |-> {}]

\* strings for which env.new_string returns Err (the error carries the string)
BadStrings == {"boom", "bang"}
FailingEnv(classes) == [Env(classes) EXCEPT !.unencodable = BadStrings]

\* composites with a string element or payload, and a tuple of object handles
PropTupleTypes == {TTuple(<<TString, TString>>), TTuple(<<TJObject, TJObject>>)}
PropTypes == PropTupleTypes \cup {TResult(TString, TString)}
\* what the fields of a foreign Tuple2 object may hold
PropFields == {Null, StringObj("boom")}

NoSrc == [k |-> "nosrc"]
NoCall == [fn |-> "none", ty |-> TUnit, arg |-> Unit, src |-> NoSrc,
           st |-> "none", val |-> Unit, log |-> <<>>]

\* ------------------------------------------------------------------ Init
InitThreads ==
    /\ pc = [t \in Threads |-> "idle"]
    /\ ret = [t \in Threads |-> "top"]
    /\ op = [t \in Threads |-> "none"]
    /\ once = [s \in Slots |-> "incomplete"]
    /\ owner = [s \in Slots |-> NoThread]
    /\ slot = [s \in Slots |-> Empty]
    /\ tmp = [t \in Threads |-> Empty]
    /\ handle = [t \in Threads |-> Empty]
    /\ used = [t \in Threads |-> Empty]
    /\ outcome = [t \in Threads |-> "none"]
    /\ calls = [t \in Threads |-> 0]
    /\ nextRef = 1
    /\ live = {}
    /\ attempts = [s \in Slots |-> 0]
    /\ failures = [s \in Slots |-> 0]
    /\ writes = [s \in Slots |-> 0]
    /\ first = [s \in Slots |-> Empty]
    /\ aborted = FALSE
    /\ job = [t \in Threads |-> NoJob]
    /\ heap = <<>>

\* a process of the build with the feature jni_tuple, whose class Tuple0
\* declares INSTANCE with its own type
Init ==
    /\ InitThreads
    /\ cache = EmptyCache
    /\ cfg = [jni_tuple |-> TRUE, instance_sig |-> get_tuple_sig(0)]
    /\ last = NoCall

\* a process of either build, whose class Tuple0 declares INSTANCE with its
\* own type or as java.lang.Object
InitUnit ==
    /\ InitThreads
    /\ cache = EmptyCache
    /\ cfg \in [jni_tuple : BOOLEAN, instance_sig : {get_tuple_sig(0), ObjectSig}]
    /\ last = NoCall

\* --------------------------------------------------------------- actions
\* a thread calls get_jclass directly, or Result::into
Call(t) ==
    /\ ~aborted
    /\ pc[t] = "idle"
    /\ calls[t] < MaxCalls
    /\ \E o \in Ops :
        /\ op' = [op EXCEPT ![t] = o]
        /\ pc' = [pc EXCEPT ![t] = IF o = "into" THEN "ct_get" ELSE "jc_get"]
    /\ ret' = [ret EXCEPT ![t] = "top"]
    /\ calls' = [calls EXCEPT ![t] = @ + 1]
    /\ outcome' = [outcome EXCEPT ![t] = "running"]
    /\ handle' = [handle EXCEPT ![t] = Empty]
    /\ used' = [used EXCEPT ![t] = Empty]
    /\ UNCHANGED <<once, owner, slot, tmp, nextRef, live, attempts, failures,
                   writes, first, aborted>>
    /\ UNCHANGED kvars

\* JCLASS_REF.get_or_init: already initialised, go on to new_local_ref
JcGetHit(t) ==
    /\ ~aborted
    /\ pc[t] = "jc_get"
    /\ once["JCLASS_REF"] = "complete"
    /\ pc' = [pc EXCEPT ![t] = "jc_local"]
    /\ UNCHANGED <<ret, op, once, owner, slot, tmp, handle, used, outcome, calls,
                   nextRef, live, attempts, failures, writes, first, aborted>>
    /\ UNCHANGED kvars

\* JCLASS_REF.get_or_init: this thread runs init_global_class_ref
JcGetInit(t) ==
    /\ ~aborted
    /\ pc[t] = "jc_get"
    /\ CanEnterInit(once["JCLASS_REF"])
    /\ once' = [once EXCEPT !["JCLASS_REF"] = "running"]
    /\ owner' = [owner EXCEPT !["JCLASS_REF"] = t]
    /\ attempts' = [attempts EXCEPT !["JCLASS_REF"] = @ + 1]
    /\ pc' = [pc EXCEPT ![t] = "jc_find"]
    /\ UNCHANGED <<ret, op, slot, tmp, handle, used, outcome, calls, nextRef,
                   live, failures, writes, first, aborted>>
    /\ UNCHANGED kvars

\* env.find_class(class_name) returned a class
JcFindOk(t) ==
    /\ ~aborted
    /\ pc[t] = "jc_find"
    /\ pc' = [pc EXCEPT ![t] = "jc_gref"]
    /\ UNCHANGED <<ret, op, once, owner, slot, tmp, handle, used, outcome, calls,
                   nextRef, live, attempts, failures, writes, first, aborted>>
    /\ UNCHANGED kvars

\* env.find_class(class_name) returned Err: unwrap panics
JcFindFail(t) ==
    /\ ~aborted
    /\ pc[t] = "jc_find"
    /\ Panic(t)
    /\ UNCHANGED <<ret, op, slot, handle, used, calls, nextRef, live, attempts,
                   writes, first>>
    /\ UNCHANGED kvars

\* env.new_global_ref(class): the initialiser's return value
JcGref(t) ==
    /\ ~aborted
    /\ pc[t] = "jc_gref"
    /\ tmp' = [tmp EXCEPT ![t] = GRef(nextRef)]
    /\ nextRef' = nextRef + 1
    /\ live' = live \cup {GRef(nextRef)}
    /\ pc' = [pc EXCEPT ![t] = "jc_store"]
    /\ UNCHANGED <<ret, op, once, owner, slot, handle, used, outcome, calls,
                   attempts, failures, writes, first, aborted>>
    /\ UNCHANGED kvars

\* get_or_init writes the value into the cell and completes the Once
JcStore(t) ==
    /\ ~aborted
    /\ pc[t] = "jc_store"
    /\ slot' = [slot EXCEPT !["JCLASS_REF"] = tmp[t]]
    /\ once' = [once EXCEPT !["JCLASS_REF"] = "complete"]
    /\ owner' = [owner EXCEPT !["JCLASS_REF"] = NoThread]
    /\ writes' = [writes EXCEPT !["JCLASS_REF"] = @ + 1]
    /\ first' = [first EXCEPT !["JCLASS_REF"] = IF @ = Empty THEN tmp[t] ELSE @]
    /\ tmp' = [tmp EXCEPT ![t] = Empty]
    /\ pc' = [pc EXCEPT ![t] = "jc_local"]
    /\ UNCHANGED <<ret, op, handle, used, outcome, calls, nextRef, live,
                   attempts, failures, aborted>>
    /\ UNCHANGED kvars

\* env.new_local_ref(&JCLASS_REF value): get_jclass returns to its caller
JcLocal(t) ==
    /\ ~aborted
    /\ pc[t] = "jc_local"
    /\ handle' = [handle EXCEPT ![t] = slot["JCLASS_REF"]]
    /\ pc' = [pc EXCEPT ![t] = IF ret[t] = "top" THEN "idle" ELSE ret[t]]
    /\ outcome' = [outcome EXCEPT ![t] = IF ret[t] = "top" /\ op[t] = "get_jclass"
                                          THEN "ok" ELSE @]
    /\ UNCHANGED <<ret, op, once, owner, slot, tmp, used, calls, nextRef, live,
                   attempts, failures, writes, first, aborted>>
    /\ UNCHANGED kvars

\* CTOR_ID.get_or_init: already initialised
CtGetHit(t) ==
    /\ ~aborted
    /\ pc[t] = "ct_get"
    /\ once["CTOR_ID"] = "complete"
    /\ pc' = [pc EXCEPT ![t] = "jc_get"]
    /\ ret' = [ret EXCEPT ![t] = "ct_new"]
    /\ UNCHANGED <<op, once, owner, slot, tmp, handle, used, outcome, calls,
                   nextRef, live, attempts, failures, writes, first, aborted>>
    /\ UNCHANGED kvars

\* CTOR_ID.get_or_init: this thread runs Self::get_method_id, which first
\* calls Self::get_jclass
CtGetInit(t) ==
    /\ ~aborted
    /\ pc[t] = "ct_get"
    /\ CanEnterInit(once["CTOR_ID"])
    /\ once' = [once EXCEPT !["CTOR_ID"] = "running"]
    /\ owner' = [owner EXCEPT !["CTOR_ID"] = t]
    /\ attempts' = [attempts EXCEPT !["CTOR_ID"] = @ + 1]
    /\ pc' = [pc EXCEPT ![t] = "jc_get"]
    /\ ret' = [ret EXCEPT ![t] = "ct_lookup"]
    /\ UNCHANGED <<op, slot, tmp, handle, used, outcome, calls, nextRef, live,
                   failures, writes, first, aborted>>
    /\ UNCHANGED kvars

\* env.get_method_id(class, "<init>", sig) found the constructor; get_or_init
\* stores it
CtLookupOk(t) ==
    /\ ~aborted
    /\ pc[t] = "ct_lookup"
    /\ slot' = [slot EXCEPT !["CTOR_ID"] = CtorMethodId]
    /\ once' = [once EXCEPT !["CTOR_ID"] = "complete"]
    /\ owner' = [owner EXCEPT !["CTOR_ID"] = NoThread]
    /\ writes' = [writes EXCEPT !["CTOR_ID"] = @ + 1]
    /\ first' = [first EXCEPT !["CTOR_ID"] = IF @ = Empty THEN CtorMethodId ELSE @]
    /\ pc' = [pc EXCEPT ![t] = "jc_get"]
    /\ ret' = [ret EXCEPT ![t] = "ct_new"]
    /\ UNCHANGED <<op, tmp, handle, used, outcome, calls, nextRef, live,
                   attempts, failures, aborted>>
    /\ UNCHANGED kvars

\* env.get_method_id returned Err: unwrap panics inside the initialiser
CtLookupFail(t) ==
    /\ ~aborted
    /\ pc[t] = "ct_lookup"
    /\ Panic(t)
    /\ UNCHANGED <<ret, op, slot, handle, used, calls, nextRef, live, attempts,
                   writes, first>>
    /\ UNCHANGED kvars

\* env.new_object_unchecked(Self::get_jclass(env), *ctor_id, ..)
CtNew(t) ==
    /\ ~aborted
    /\ pc[t] = "ct_new"
    /\ used' = [used EXCEPT ![t] = slot["CTOR_ID"]]
    /\ pc' = [pc EXCEPT ![t] = "idle"]
    /\ outcome' = [outcome EXCEPT ![t] = "ok"]
    /\ UNCHANGED <<ret, op, once, owner, slot, tmp, handle, calls, nextRef, live,
                   attempts, failures, writes, first, aborted>>
    /\ UNCHANGED kvars

Next ==
    \E t \in Threads :
        \/ Call(t)
        \/ JcGetHit(t)
        \/ JcGetInit(t)
        \/ JcFindOk(t)
        \/ JcFindFail(t)
        \/ JcGref(t)
        \/ JcStore(t)
        \/ JcLocal(t)
        \/ CtGetHit(t)
        \/ CtGetInit(t)
        \/ CtLookupOk(t)
        \/ CtLookupFail(t)
        \/ CtNew(t)

Spec == Init /\ [][Next]_vars

\* ------------------------------------------ concurrent conversion calls
\* Threads run Vec<i32>::into, <(i32, i32)>::into, Vec<i32>::from and
\* Result<i32, i32>::from side by side, one JNI call or OnceLock operation a step.

\* the OnceLock statics of these four conversions
VecCtor == <<"Vec", "into", "CTOR_ID">>
VecClass == <<"Vec", "JCLASS_REF">>
TupleCtor == <<"Tuple", "2", "into", "CTOR_ID">>
TupleClass == <<"Tuple", "2", "JCLASS_REF">>
ResultTag == <<"Result", "from", "TAG_FIELD_ID">>
ResultValue == <<"Result", "from", "VALUE_FIELD_ID">>
ResultClass == <<"Result", "JCLASS_REF">>
ConvSlots == {VecCtor, VecClass, TupleCtor, TupleClass, ResultTag, ResultValue,
              ResultClass}

\* the member statics a conversion passes through get_or_init, in program order
member_slots(kind) ==
    CASE kind = "vec_into" -> <<VecCtor>>
      [] kind = "tuple_into" -> <<TupleCtor>>
      [] kind = "result_from" -> <<ResultTag, ResultValue>>
      [] OTHER -> <<>>

\* Self::get_jclass going through the cell of the member static being
\* initialised
class_slot_reentrant(kind) == member_slots(kind)[1]

\* the JCLASS_REF static of Self::get_jclass
class_slot(kind) ==
    CASE kind = "vec_into" -> VecClass
      [] kind = "tuple_into" -> TupleClass
      [] kind = "result_from" -> ResultClass

\* lists the foreign side built before any call, by object id
ForeignLists == <<<<IntegerObj(5), IntegerObj(7)>>, <<IntegerObj(-1)>>>>

\* the inputs of the calls: a Vec<i32> or (i32, i32) to encode, a foreign list
\* to decode, a foreign Result of tag arg[1] holding the Integer arg[2]
ConvJobs ==
    {[kind |-> "vec_into", arg |-> a, src |-> 0] : a \in {<<5, 7>>, <<7, 5>>, <<-1>>}}
        \cup {[kind |-> "tuple_into", arg |-> a, src |-> 0] : a \in {<<5, 7>>, <<7, -1>>}}
        \cup {[kind |-> "vec_from", arg |-> <<>>, src |-> id] : id \in DOMAIN ForeignLists}
        \cup {[kind |-> "result_from", arg |-> a, src |-> 0] : a \in {<<0, 5>>, <<1, 7>>}}

\* new_object_unchecked hands every call the one list id
shared_list_id(h) == 1

\* new_object_unchecked returns an object no one else holds
new_list_id(h) == Len(h) + 1

InitConcurrent ==
    /\ pc = [t \in Threads |-> "idle"]
    /\ ret = [t \in Threads |-> "top"]
    /\ op = [t \in Threads |-> "none"]
    /\ once = [s \in ConvSlots |-> "incomplete"]
    /\ owner = [s \in ConvSlots |-> NoThread]
    /\ slot = [s \in ConvSlots |-> Empty]
    /\ tmp = [t \in Threads |-> Empty]
    /\ handle = [t \in Threads |-> Empty]
    /\ used = [t \in Threads |-> Empty]
    /\ outcome = [t \in Threads |-> "none"]
    /\ calls = [t \in Threads |-> 0]
    /\ nextRef = 1
    /\ live = {}
    /\ attempts = [s \in ConvSlots |-> 0]
    /\ failures = [s \in ConvSlots |-> 0]
    /\ writes = [s \in ConvSlots |-> 0]
    /\ first = [s \in ConvSlots |-> Empty]
    /\ aborted = FALSE
    /\ job = [t \in Threads |-> NoJob]
    /\ heap = ForeignLists
    /\ cache = EmptyCache
    /\ cfg = [jni_tuple |-> TRUE, instance_sig |-> get_tuple_sig(0)]
    /\ last = NoCall

\* what these calls never touch
ConvFrame == UNCHANGED <<op, tmp, handle, used, failures, aborted, cache, cfg, last>>

\* the member static the thread is at
CurMember(t) == member_slots(job[t].kind)[job[t].m]

\* where a thread goes once the member static job[t].m holds its id: a
\* Result::from reads the field through it (get_field_unchecked, .b() / .l()),
\* then the next static if there is one, else the rest of the body, which for
\* an into starts with Self::get_jclass(env)
AfterMember(t) ==
    LET j == job[t]
        read == IF j.kind = "result_from" THEN Append(j.out, j.arg[j.m]) ELSE j.out
    IN  /\ job' = [job EXCEPT ![t] = [j EXCEPT !.out = read,
                                     !.m = IF j.m < Len(member_slots(j.kind))
                                           THEN j.m + 1 ELSE j.m]]
        /\ IF j.m < Len(member_slots(j.kind))
           THEN pc' = [pc EXCEPT ![t] = "e_member"] /\ UNCHANGED ret
           ELSE IF j.kind = "result_from"
                THEN pc' = [pc EXCEPT ![t] = "e_elems"] /\ UNCHANGED ret
                ELSE /\ pc' = [pc EXCEPT ![t] = "e_class"]
                     /\ ret' = [ret EXCEPT ![t] = "e_new"]

\* a thread starts a conversion
ConvCall(t) ==
    /\ pc[t] = "idle"
    /\ calls[t] < MaxCalls
    /\ \E j \in ConvJobs :
        /\ job' = [job EXCEPT ![t] = [kind |-> j.kind, arg |-> j.arg, src |-> j.src,
                                     m |-> 1, i |-> 1, obj |-> 0, out |-> <<>>]]
        /\ pc' = [pc EXCEPT ![t] = IF member_slots(j.kind) = <<>> THEN "e_elems"
                                   ELSE "e_member"]
    /\ calls' = [calls EXCEPT ![t] = @ + 1]
    /\ outcome' = [outcome EXCEPT ![t] = "running"]
    /\ UNCHANGED <<ret, once, owner, slot, nextRef, live, attempts, writes, first, heap>>
    /\ ConvFrame

\* X_ID.get_or_init: already initialised
MemberHit(t) ==
    /\ pc[t] = "e_member"
    /\ once[CurMember(t)] = "complete"
    /\ AfterMember(t)
    /\ UNCHANGED <<once, owner, slot, outcome, calls, nextRef, live, attempts, writes,
                   first, heap>>
    /\ ConvFrame

\* X_ID.get_or_init: this thread runs Self::get_..._id, which first calls
\* Self::get_jclass
MemberInit(t) ==
    /\ pc[t] = "e_member"
    /\ CanEnterInit(once[CurMember(t)])
    /\ once' = [once EXCEPT ![CurMember(t)] = "running"]
    /\ owner' = [owner EXCEPT ![CurMember(t)] = t]
    /\ attempts' = [attempts EXCEPT ![CurMember(t)] = @ + 1]
    /\ pc' = [pc EXCEPT ![t] = "e_class"]
    /\ ret' = [ret EXCEPT ![t] = "e_lookup"]
    /\ UNCHANGED <<slot, outcome, calls, nextRef, live, writes, first, job, heap>>
    /\ ConvFrame

\* JCLASS_REF.get_or_init: already initialised; new_local_ref and return
ClassHit(t) ==
    /\ pc[t] = "e_class"
    /\ once[class_slot(job[t].kind)] = "complete"
    /\ pc' = [pc EXCEPT ![t] = ret[t]]
    /\ UNCHANGED <<ret, once, owner, slot, outcome, calls, nextRef, live, attempts,
                   writes, first, job, heap>>
    /\ ConvFrame

\* JCLASS_REF.get_or_init: this thread runs init_global_class_ref
ClassInit(t) ==
    /\ pc[t] = "e_class"
    /\ CanEnterInit(once[class_slot(job[t].kind)])
    /\ once' = [once EXCEPT ![class_slot(job[t].kind)] = "running"]
    /\ owner' = [owner EXCEPT ![class_slot(job[t].kind)] = t]
    /\ attempts' = [attempts EXCEPT ![class_slot(job[t].kind)] = @ + 1]
    /\ pc' = [pc EXCEPT ![t] = "e_find"]
    /\ UNCHANGED <<ret, slot, outcome, calls, nextRef, live, writes, first, job, heap>>
    /\ ConvFrame

\* find_class and new_global_ref succeed, get_or_init stores the reference;
\* new_local_ref and return
ClassStore(t) ==
    /\ pc[t] = "e_find"
    /\ slot' = [slot EXCEPT ![class_slot(job[t].kind)] = GRef(nextRef)]
    /\ once' = [once EXCEPT ![class_slot(job[t].kind)] = "complete"]
    /\ owner' = [owner EXCEPT ![class_slot(job[t].kind)] = NoThread]
    /\ writes' = [writes EXCEPT ![class_slot(job[t].kind)] = @ + 1]
    /\ first' = [first EXCEPT ![class_slot(job[t].kind)] = IF @ = Empty THEN GRef(nextRef) ELSE @]
    /\ nextRef' = nextRef + 1
    /\ live' = live \cup {GRef(nextRef)}
    /\ pc' = [pc EXCEPT ![t] = ret[t]]
    /\ UNCHANGED <<ret, outcome, calls, attempts, job, heap>>
    /\ ConvFrame

\* env.get_..._id(class, name, sig) succeeds, get_or_init stores the id
MemberStore(t) ==
    /\ pc[t] = "e_lookup"
    /\ slot' = [slot EXCEPT ![CurMember(t)] = [k |-> "mid", id |-> job[t].m]]
    /\ once' = [once EXCEPT ![CurMember(t)] = "complete"]
    /\ owner' = [owner EXCEPT ![CurMember(t)] = NoThread]
    /\ writes' = [writes EXCEPT ![CurMember(t)] = @ + 1]
    /\ first' = [first EXCEPT ![CurMember(t)] = IF @ = Empty THEN [k |-> "mid", id |-> job[t].m] ELSE @]
    /\ AfterMember(t)
    /\ UNCHANGED <<outcome, calls, nextRef, live, attempts, heap>>
    /\ ConvFrame

\* Vec::into: env.new_object_unchecked(class, *ctor_id, &[len]) and
\* JList::from_env; a tuple's into goes on to its constructor arguments
ConvNew(t) ==
    /\ pc[t] = "e_new"
    /\ IF job[t].kind = "vec_into"
       THEN LET id == new_list_id(heap) IN
            /\ heap' = [x \in DOMAIN heap \cup {id} |-> IF x = id THEN <<>> ELSE heap[x]]
            /\ job' = [job EXCEPT ![t].obj = id]
       ELSE UNCHANGED <<job, heap>>
    /\ pc' = [pc EXCEPT ![t] = "e_elems"]
    /\ UNCHANGED <<ret, once, owner, slot, outcome, calls, nextRef, live, attempts,
                   writes, first>>
    /\ ConvFrame

\* the next element: Vec::into boxes it and calls list.add; a tuple's into
\* boxes it into the argument array; Vec::from takes it from the iterator and
\* unboxes it; Result::from unboxes the value it read
ConvElem(t) ==
    LET j == job[t]
        n == CASE j.kind = "vec_from" -> Len(heap[j.src])
               [] j.kind = "result_from" -> 0
               [] OTHER -> Len(j.arg)
    IN  /\ pc[t] = "e_elems"
        /\ j.i <= n
        /\ IF j.kind = "vec_into"
           THEN /\ heap' = [heap EXCEPT ![j.obj] = Append(@, IntegerObj(j.arg[j.i]))]
                /\ job' = [job EXCEPT ![t].i = @ + 1]
           ELSE /\ job' = [job EXCEPT ![t].i = @ + 1,
                                      ![t].out = Append(@,
                                          IF j.kind = "tuple_into"
                                          THEN IntegerObj(j.arg[j.i])
                                          ELSE JInt(heap[j.src][j.i].f))]
                /\ UNCHANGED heap
        /\ UNCHANGED <<pc, ret, once, owner, slot, outcome, calls, nextRef, live,
                       attempts, writes, first>>
        /\ ConvFrame

\* the call returns: list.into_raw(), new_object_unchecked of the tuple, the
\* collected Vec, or the Ok / Err
ConvReturn(t) ==
    LET j == job[t]
        n == CASE j.kind = "vec_from" -> Len(heap[j.src])
               [] j.kind = "result_from" -> 0
               [] OTHER -> Len(j.arg)
    IN  /\ pc[t] = "e_elems"
        /\ j.i > n
        /\ pc' = [pc EXCEPT ![t] = "idle"]
        /\ outcome' = [outcome EXCEPT ![t] = "ok"]
        /\ UNCHANGED <<ret, once, owner, slot, calls, nextRef, live, attempts, writes,
                       first, job, heap>>
        /\ ConvFrame

ThreadStep(t) ==
    \/ ConvCall(t)
    \/ MemberHit(t)
    \/ MemberInit(t)
    \/ ClassHit(t)
    \/ ClassInit(t)
    \/ ClassStore(t)
    \/ MemberStore(t)
    \/ ConvNew(t)
    \/ ConvElem(t)
    \/ ConvReturn(t)

NextConcurrent == \E t \in Threads : ThreadStep(t)

SpecConcurrent == InitConcurrent /\ [][NextConcurrent]_vars

\* the scheduler runs every thread that can take a step
SpecFirstAccess ==
    InitConcurrent /\ [][NextConcurrent]_vars /\ \A t \in Threads : WF_vars(ThreadStep(t))

\* ----------------------------------------------------- descriptors
\* the settings of RESULT_JNI_SIGNATURE and TUPLE_JNI_PREFIX a build may see
BuildEnvs ==
    [result : {Unset, SetTo(<<"L", "com/acme/Either", ";">>)},
     prefix : {Unset, SetTo(<<"L", "com/acme/T">>)}]

\* the types whose descriptors are composed
DescLeaves == LeafTypes \cup {TChar, TUnit}
DescTypes ==
    LET inner == DescLeaves \cup {TOption(T) : T \in DescLeaves}
                     \cup {TVec(TI32), TResult(TI32, TString), TTuple(<<TI32>>)}
    IN  inner \cup {TOption(T) : T \in inner} \cup {TVec(T) : T \in inner}
              \cup {TResult(O, E) : O \in {TI32, TString, TUnit}, E \in {TString, TJObject}}
              \cup UNION {{TTuple(ts) : ts \in [1..n -> {TI32, TString}]} : n \in 1..MaxArity}

InitDescriptor ==
    /\ InitThreads
    /\ cache = EmptyCache
    /\ cfg \in {[jni_tuple |-> TRUE, instance_sig |-> get_tuple_sig(0), build |-> b] :
                   b \in BuildEnvs}
    /\ last = NoCall

\* <T as Signature>::SIG_TYPE
SigTypeCall ==
    \E T \in DescTypes :
        /\ last' = [fn |-> "SIG_TYPE", ty |-> T, arg |-> Unit, src |-> NoSrc,
                    st |-> "ok", val |-> SIG_TYPE_in(T, cfg.build), log |-> <<>>]
        /\ UNCHANGED <<cache, cfg, cvars, evars>>

NextDescriptor == SigTypeCall

SpecDescriptor == InitDescriptor /\ [][NextDescriptor]_vars

\* ------------------------------------------------- build.rs: tuple arities
\* a string is the sequence of its characters
Digits == <<"0", "1", "2", "3", "4", "5", "6", "7", "8", "9">>
IsDigit(ch) == \E d \in 1..10 : Digits[d] = ch
DigitValue(ch) == (CHOOSE d \in 1..10 : Digits[d] = ch) - 1

\* str::split(","): the pieces between the separators, empty ones included
RECURSIVE split(_, _)
split(str, sep) ==
    IF \A i \in 1..Len(str) : str[i] # sep THEN <<str>>
    ELSE LET at == CHOOSE i \in 1..Len(str) :
                       str[i] = sep /\ \A j \in 1..(i - 1) : str[j] # sep
         IN  <<SubSeq(str, 1, at - 1)>> \o split(SubSeq(str, at + 1, Len(str)), sep)

\* str::trim: without leading and trailing whitespace
RECURSIVE trim(_)
trim(str) ==
    IF str # <<>> /\ str[1] = " " THEN trim(Tail(str))
    ELSE IF str # <<>> /\ str[Len(str)] = " " THEN trim(SubSeq(str, 1, Len(str) - 1))
    ELSE str

ParseErr == -1

\* the digits of a numeral, most significant first, onto the value so far
RECURSIVE from_digits(_, _)
from_digits(str, acc) ==
    IF str = <<>> THEN acc
    ELSE IF ~IsDigit(str[1]) THEN ParseErr
    ELSE from_digits(Tail(str), acc * 10 + DigitValue(str[1]))

\* str::parse::<usize>().ok(): an optional "+", then one digit or more
parse_usize(str) ==
    LET body == IF str # <<>> /\ str[1] = "+" THEN Tail(str) ELSE str
    IN  IF body = <<>> THEN ParseErr ELSE from_digits(body, 0)

\* filter_map(|num| num.trim().parse::<usize>().ok()).collect::<HashSet<_>>()
dim_set(impl_string) ==
    LET entries == split(impl_string, ",")
    IN  {parse_usize(trim(entries[i])) : i \in 1..Len(entries)} \ {ParseErr}

\* the elements, largest first
RECURSIVE sort_descending(_)
sort_descending(S) ==
    IF S = {} THEN <<>>
    ELSE LET hi == CHOOSE x \in S : \A y \in S : y <= x
         IN  <<hi>> \o sort_descending(S \ {hi})

\* dim_set.into_iter().collect() and dim_vec.sort_unstable()
RECURSIVE sort_unstable(_)
sort_unstable(S) ==
    IF S = {} THEN <<>>
    ELSE LET lo == CHOOSE x \in S : \A y \in S : x <= y
         IN  <<lo>> \o sort_unstable(S \ {lo})

\* TupleConfig::parse_tuple_impl_string
parse_tuple_impl_string(impl_string) == sort_unstable(dim_set(impl_string))

\* TupleConfig::get_tuple_macro_param: "(T{idx}, t{idx}, {idx}), " for 0..dim
get_tuple_macro_param(dim) ==
    [i \in 1..dim |-> [T |-> <<"T", ToStr(i - 1)>>, t |-> <<"t", ToStr(i - 1)>>,
                       idx |-> i - 1]]

\* "0,1,2,3,4,5,6,7,8,9,10,11,12"
DefaultImplString ==
    <<"0", ",", "1", ",", "2", ",", "3", ",", "4", ",", "5", ",", "6", ",", "7", ",",
      "8", ",", "9", ",", "1", "0", ",", "1", "1", ",", "1", "2">>

\* TupleConfig::create_impl_tuple_macros: the impl_tuple_complete! calls of
\* impl_all_tuples!, in the order written
create_impl_tuple_macros(b) ==
    LET tuple_impl_string == env_var_or(b.impl, DefaultImplString) \o <<",", "0">>
        impl_tuple_vec == parse_tuple_impl_string(tuple_impl_string)
    IN  [i \in 1..Len(impl_tuple_vec) |->
            [sig |-> format_tuple_sig(tuple_jni_prefix(b), impl_tuple_vec[i]),
             params |-> get_tuple_macro_param(impl_tuple_vec[i])]]

\* the values TUPLE_IMPL_STRING may have
ImplAlphabet == {"0", "1", ",", " ", "+", "-"}
ImplStrings == UNION {[1..n -> ImplAlphabet] : n \in 0..MaxChars}

InitBuild ==
    /\ InitThreads
    /\ cache = EmptyCache
    /\ cfg \in {[jni_tuple |-> TRUE, instance_sig |-> get_tuple_sig(0),
                  build |-> [result |-> Unset, prefix |-> p, impl |-> i]] :
                   p \in {Unset, SetTo(<<"L", "com/acme/T">>)},
                   i \in {Unset} \cup {SetTo(str) : str \in ImplStrings}}
    /\ last = NoCall

\* fn main with the feature jni_tuple
BuildCall ==
    /\ last.fn = "none"
    /\ last' = [fn |-> "build", ty |-> TUnit, arg |-> Unit, src |-> NoSrc,
                st |-> "ok", val |-> create_impl_tuple_macros(cfg.build), log |-> <<>>]
    /\ UNCHANGED <<cache, cfg, cvars, evars>>

NextBuild == BuildCall

SpecBuild == InitBuild /\ [][NextBuild]_vars

\* ---------------------------------------------------- conversion calls
\* the call returns or panics; a panic aborts the process or unwinds
Finish(fn, T, arg, src, r) ==
    /\ last' = [fn |-> fn, ty |-> T, arg |-> arg, src |-> src,
                st |-> r.st, val |-> r.val, log |-> r.log]
    /\ cache' = r.cache
    /\ aborted' \in (IF r.st = "panic" THEN BOOLEAN ELSE {FALSE})
    /\ UNCHANGED <<cfg, tvars, evars>>

\* T::into(v, env) on a native value
IntoCall(Types) ==
    /\ ~aborted
    /\ \E T \in Types, cp \in ClassPaths :
        \E v \in ValuesOf(T) :
            Finish("into", T, v, NoSrc, into(T, v, cache, Env(cp)))

\* T::from(h, env) on the handle the last into returned
FromCall(Types) ==
    /\ ~aborted
    /\ last.fn = "into"
    /\ last.st = "ok"
    /\ last.ty \in Types
    /\ \E cp \in ClassPaths :
        Finish("from", last.ty, last.val, last.arg,
               from(last.ty, last.val, cache, Env(cp)))

\* T::from(h, env) on a handle the foreign side supplies
FromForeignCall(Types) ==
    /\ ~aborted
    /\ \E T \in Types, cp \in ClassPaths :
        \E h \in ForeignOf(T) :
            Finish("from", T, h, NoSrc, from(T, h, cache, Env(cp)))

\* T::try_into(v, env) on a native value
TryIntoCall(Types) ==
    /\ ~aborted
    /\ \E T \in Types, cp \in ClassPaths :
        \E v \in ValuesOf(T) :
            Finish("try_into", T, v, NoSrc, try_into(T, v, cache, Env(cp)))

\* T::try_from(h, env) on the handle the last try_into returned
TryFromCall(Types) ==
    /\ ~aborted
    /\ last.fn = "try_into"
    /\ last.st = "ok"
    /\ last.ty \in Types
    /\ \E cp \in ClassPaths :
        Finish("try_from", last.ty, last.val, last.arg,
               try_from(last.ty, last.val, cache, Env(cp)))

\* T::try_from(h, env) on a handle the foreign side supplies
TryFromForeignCall(Types) ==
    /\ ~aborted
    /\ \E T \in Types, cp \in ClassPaths :
        \E h \in ForeignOf(T) :
            Finish("try_from", T, h, NoSrc, try_from(T, h, cache, Env(cp)))

NextOption ==
    \/ IntoCall(LeafTypes \cup OptionTypes)
    \/ FromCall(LeafTypes \cup OptionTypes)
    \/ FromForeignCall(OptionTypes)

SpecOption == Init /\ [][NextOption]_vars

NextResult ==
    \/ IntoCall(ResultTypes)
    \/ FromCall(ResultTypes)
    \/ FromForeignCall(ResultTypes)
    \/ TryIntoCall(TryResultTypes)
    \/ TryFromCall(TryResultTypes)
    \/ TryFromForeignCall(TryResultTypes)

SpecResult == Init /\ [][NextResult]_vars

\* <() as JavaValue>::autobox((), env)
AutoboxCall ==
    /\ ~aborted
    /\ \E cp \in ClassPaths :
        Finish("autobox", TUnit, Unit, NoSrc, autobox(TargetOf(TUnit), Unit, cache, Env(cp)))

\* <() as JavaValue>::unbox(h, env) on any handle
UnboxCall ==
    /\ ~aborted
    /\ \E cp \in ClassPaths, h \in ForeignOf(TUnit) \cup {IntegerObj(5)} :
        Finish("unbox", TUnit, h, NoSrc, unbox(SourceOf(TUnit), h, cache, Env(cp)))

NextUnit ==
    \/ AutoboxCall
    \/ UnboxCall
    \/ IntoCall(UnitTypes)
    \/ FromCall(UnitTypes)

SpecUnit == InitUnit /\ [][NextUnit]_vars

NextVec ==
    \/ IntoCall(VecTypes)
    \/ FromCall(VecTypes)
    \/ FromForeignCall(VecTypes)

SpecVec == Init /\ [][NextVec]_vars

\* the fallible family of the tuple adapter
NextTuple ==
    \/ TryIntoCall(TupleTypes)
    \/ TryFromCall(TupleTypes)
    \/ TryFromForeignCall(TupleTypes)

SpecTuple == Init /\ [][NextTuple]_vars

\* T::try_into(v, env) while the foreign runtime refuses some strings
TryIntoFailingCall(Types) ==
    /\ ~aborted
    /\ \E T \in Types, cp \in ClassPaths :
        \E v \in ValuesOf(T) :
            Finish("try_into", T, v, NoSrc, try_into(T, v, cache, FailingEnv(cp)))

\* T::try_from(h, env) on a foreign Tuple2 object, or on the null handle
TryFromFieldsCall(Types) ==
    /\ ~aborted
    /\ \E T \in Types, cp \in ClassPaths :
        \E h \in {Null} \cup {TupleObj(<<a, b>>) : a \in PropFields, b \in PropFields} :
            Finish("try_from", T, h, NoSrc, try_from(T, h, cache, Env(cp)))

\* the fallible family on inputs whose elements or fields fail
NextPropagate ==
    \/ TryIntoFailingCall(PropTypes)
    \/ TryFromFieldsCall(PropTupleTypes)

SpecPropagate == Init /\ [][NextPropagate]_vars

NextPrimitive ==
    \/ IntoCall(PrimTypes)
    \/ FromCall(PrimTypes)
    \/ FromForeignCall(PrimTypes)

SpecPrimitive == Init /\ [][NextPrimitive]_vars

NextBoolArray ==
    \/ IntoCall({TBoolArray})
    \/ FromCall({TBoolArray})
    \/ FromForeignCall({TBoolArray})

SpecBoolArray == Init /\ [][NextBoolArray]_vars

\* composites both families convert in these sources
ParityTypes == {TResult(TI32, TString), TTuple(<<TJObject>>)}

\* the two outcomes of one input, each family run from the same statics; the
\* process goes on with the statics one of the two runs left
ParityFinish(fn, T, arg, safe, unchecked) ==
    \E x \in {safe}, u \in {unchecked} :
        /\ last' = [fn |-> fn, ty |-> T, arg |-> arg, src |-> NoSrc,
                    st |-> x.st, val |-> x.val, log |-> x.log,
                    ust |-> u.st, uval |-> u.val, ulog |-> u.log,
                    cold |-> (cache = EmptyCache)]
        /\ \E r \in {x, u} :
            /\ cache' = r.cache
            /\ aborted' \in (IF r.st = "panic" THEN BOOLEAN ELSE {FALSE})
        /\ UNCHANGED <<cfg, tvars, evars>>

\* T::try_into(v, env) beside T::into(v, env)
ParityIntoCall ==
    /\ ~aborted
    /\ \E T \in ParityTypes, cp \in ClassPaths :
        \E v \in ValuesOf(T) :
            ParityFinish("parity_into", T, v, try_into(T, v, cache, Env(cp)),
                         into(T, v, cache, Env(cp)))

\* T::try_from(h, env) beside T::from(h, env)
ParityFromCall ==
    /\ ~aborted
    /\ \E T \in ParityTypes, cp \in ClassPaths :
        \E h \in ForeignOf(T) :
            ParityFinish("parity_from", T, h, try_from(T, h, cache, Env(cp)),
                         from(T, h, cache, Env(cp)))

NextParity ==
    \/ ParityIntoCall
    \/ ParityFromCall

SpecParity == Init /\ [][NextParity]_vars

\* types whose parsed forms are asked for: a primitive, Options of different
\* payloads, sequences of different elements
SigTypes == {TI32, TOption(TI32), TOption(TString), TOption(TOption(TBool)),
             TVec(TI32), TVec(TString)}

\* T::get_java_type() / T::get_type_signature() / T::get_return_type()
GetParsedCall ==
    /\ ~aborted
    /\ \E form \in ParsedForms, T \in SigTypes :
        Finish(form, T, Unit, NoSrc, get_parsed(form, T, cache))

NextSignature == GetParsedCall

SpecSignature == Init /\ [][NextSignature]_vars

\* the envelopes a caller may hold: every variant with two payloads, Void
\* with none
JValues ==
    {JValueOf(t, x) : t \in ExtractKinds \ {"object", "void", "string"}, x \in {Prim(0), Prim(1)}}
        \cup {JValueOf("object", h) : h \in {Null, ObjA}}
        \cup {JValueOf("void", Prim(0))}

\* K::try_from(JValueWrapper(value))
ExtractCall ==
    /\ ~aborted
    /\ \E kind \in ExtractKinds, value \in JValues :
        Finish("extract", [k |-> kind], value, NoSrc, jvalue_try_from(kind, value, cache))

NextExtract == ExtractCall

SpecExtract == Init /\ [][NextExtract]_vars

\* the infallible family of the tuple adapter
NextTupleUnchecked ==
    \/ IntoCall(TupleTypes)
    \/ FromCall(TupleTypes)
    \/ FromForeignCall(TupleTypes)

SpecTupleUnchecked == Init /\ [][NextTupleUnchecked]_vars

\* ------------------------------------------------- claims on the caches
\* C2: under every interleaving of concurrent first accesses to get_jclass
\* at most one resolution (find_class then new_global_ref) completes, apart
\* from initialiser runs that panicked no second run is started, every
\* caller that got a handle got the one global reference stored in the slot,
\* and no caller reads the slot while it is empty.
C2_SingleResolution ==
    /\ writes["JCLASS_REF"] <= 1
    /\ Cardinality(live) <= 1
    /\ attempts["JCLASS_REF"] - failures["JCLASS_REF"] <= 1
    /\ \A t \in Threads :
        /\ pc[t] = "jc_local" => slot["JCLASS_REF"] # Empty
        /\ (outcome[t] = "ok" /\ op[t] = "get_jclass") => handle[t] # Empty
        /\ handle[t] # Empty =>
            /\ handle[t] = slot["JCLASS_REF"]
            /\ handle[t] \in live
            /\ writes["JCLASS_REF"] = 1

\* every thread made its first call to get_jclass, all returned, and one
\* initialiser run served them all
C2_Witness ==
    /\ \A t \in Threads :
        /\ calls[t] = 1
        /\ op[t] = "get_jclass"
        /\ outcome[t] = "ok"
        /\ handle[t] = GRef(1)
    /\ attempts["JCLASS_REF"] = 1
    /\ failures["JCLASS_REF"] = 0

\* C3: a failed class or member lookup panics the call, and once a slot's
\* resolution has failed no later access starts another resolution of it.
C3_FatalNoRetry ==
    [][ /\ \A s \in Slots : failures[s] > 0 => attempts'[s] = attempts[s]
        /\ \A s \in Slots : failures'[s] > failures[s] =>
              \E t \in Threads : outcome[t] = "running" /\ outcome'[t] = "panic"
      ]_vars

\* C4: every slot is empty or holds the first value stored in it, is stored
\* at most once, and the class slot's global reference stays live.
C4_WriteOnce ==
    /\ \A s \in Slots :
        /\ writes[s] <= 1
        /\ slot[s] = first[s]
        /\ (slot[s] = Empty) = (writes[s] = 0)
    /\ slot["JCLASS_REF"] # Empty => slot["JCLASS_REF"] \in live
    /\ \A t \in Threads : used[t] # Empty => used[t] = first["CTOR_ID"]

\* both slots are filled and a thread's later Result::into ran on the cached
\* constructor id and class reference without resolving again
C4_Witness ==
    /\ slot["JCLASS_REF"] = GRef(1)
    /\ slot["CTOR_ID"] = CtorMethodId
    /\ \E t \in Threads :
        /\ calls[t] = MaxCalls
        /\ op[t] = "into"
        /\ outcome[t] = "ok"
        /\ used[t] = CtorMethodId
        /\ handle[t] = GRef(1)
    /\ attempts["CTOR_ID"] = 1
    /\ attempts["JCLASS_REF"] = 1

\* ------------------------------------------------- claims on Option
\* a native value whose encoding is the null handle: None, a null object
\* handle, and Some around either
RECURSIVE EncodesToNull(_)
EncodesToNull(x) ==
    \/ x.k = "None"
    \/ x.k = "null"
    \/ x.k = "Some" /\ EncodesToNull(x.v)

IsOptionRoundTrip == last.fn = "from" /\ last.ty.k = "Option" /\ last.src # NoSrc

Resolved == ~(last.st = "panic" /\ last.val.m \in {"find_class", "member lookup"})

IsResultDecode ==
    last.fn \in {"from", "try_from"} /\ last.ty.k = "Result" /\ ~is_null(last.arg)

\* C1: decoding a Result object whose tag is neither 0 nor 1, by from or by
\* try_from, ends in an error outcome: no panic, no Ok or Err value.
C1_BadTagIsError ==
    (IsResultDecode /\ last.arg.f.tag \notin {0, 1} /\ Resolved) => last.st = "err"

\* the handle a foreign caller expects for a native value: the boxed
\* primitive, the string object, the handle itself, null for None
RECURSIVE ExpectedBox(_)
ExpectedBox(x) ==
    CASE x.k = "jint" -> IntegerObj(x.v)
      [] x.k = "bool" -> BooleanObj(IF x.v THEN 1 ELSE 0)
      [] x.k = "String" -> StringObj(x.v)
      [] x.k = "None" -> Null
      [] x.k = "Some" -> ExpectedBox(x.v)
      [] OTHER -> x

\* a native value as it comes back: Some around a null encoding is None
RECURSIVE Collapse(_)
Collapse(x) ==
    IF x.k = "Some"
    THEN (IF EncodesToNull(x.v) THEN None ELSE Some(Collapse(x.v)))
    ELSE x

IsResultEncode == last.fn \in {"into", "try_into"} /\ last.ty.k = "Result"
IsResultRoundTrip == IsResultDecode /\ last.src # NoSrc

\* encode builds the object with tag 0 and the boxed ok payload, or tag 1 and
\* the boxed err payload; decode of tag 0 is Ok, of tag 1 is Err
ResultTagging ==
    /\ IsResultEncode => 
          /\ Resolved => last.st = "ok"
          /\ last.st = "ok" =>
                last.val = ResultObj(IF last.arg.k = "Ok" THEN 0 ELSE 1,
                                     ExpectedBox(last.arg.v))
    /\ (IsResultDecode /\ last.st = "ok") =>
          /\ last.arg.f.tag = 0 => last.val.k = "Ok"
          /\ last.arg.f.tag = 1 => last.val.k = "Err"

IsPrimitiveTuple(T) == T.k = "Tuple" /\ \A i \in 1..Len(T.of) : T.of[i] = TI32

IsTupleRoundTrip ==
    /\ last.fn \in {"from", "try_from"}
    /\ IsPrimitiveTuple(last.ty)
    /\ last.src # NoSrc

\* C6: a tuple of N >= 1 primitive (i32) values, encoded into the foreign
\* tuple object with N Object-typed fields t0..t(N-1) and decoded again, comes
\* back equal, value by value; the decode resolves and reads every field
\* (the class path holding the tuple classes)
C6_TupleRoundTrip ==
    (IsTupleRoundTrip /\ ~(last.st = "panic" /\ last.val.m = "find_class"))
        => (last.st = "ok" /\ last.val = last.src)

\* --------------------------------------------------- claims on sequences
IsVecEncode == last.fn = "into" /\ last.ty.k = "Vec"
IsVecDecode == last.fn = "from" /\ last.ty.k = "Vec" /\ ~is_null(last.arg)

\* the constructor calls and appends / the size and get calls of a log
ListWrites(log) == SelectSeq(log, LAMBDA x : x.op \in {"new_object", "List.add"})
ListReads(log) == SelectSeq(log, LAMBDA x : x.op \in {"List.size", "List.get"})

\* C8: encoding a sequence of length n calls the list constructor once with
\* capacity n and then appends exactly n times, the i-th append being the boxed
\* conversion of the i-th element; decoding reads the list front to back once
\* and returns as many elements in the same order; the empty sequence encodes
\* to the empty list and decodes to the empty sequence
C8_VecOrderLength ==
    /\ IsVecEncode =>
        \/ last.st = "panic" /\ last.val.m = "find_class"
        \/ /\ last.st = "ok"
           /\ LET n == Len(last.arg.v)
                  boxes == [i \in 1..n |-> ExpectedBox(last.arg.v[i])]
              IN /\ ListWrites(last.log) =
                        <<Jni("new_object", <<<<"java/util/ArrayList">>, <<JInt(n)>>>>)>>
                        \o [i \in 1..n |-> Jni("List.add", boxes[i])]
                 /\ last.val = ListObj(n, boxes)
    /\ IsVecDecode =>
        /\ last.st = "ok"
        /\ LET n == Len(last.arg.f.elems)
           IN /\ Len(last.val.v) = n
              /\ ListReads(last.log) =
                    <<Jni("List.size", <<>>)>> \o [i \in 1..n |-> Jni("List.get", i - 1)]
              /\ \A i \in 1..n : ExpectedBox(last.val.v[i]) = last.arg.f.elems[i]
        /\ last.src # NoSrc => last.val = last.src

\* a sequence of two different elements went through encode and decode
C8_Witness ==
    /\ IsVecDecode
    /\ last.st = "ok"
    /\ last.src = VecOf(<<JInt(7), JInt(5)>>)
    /\ last.val = last.src

\* ------------------------------------------------ claims on the unit value
IsUnitAutobox == last.fn = "autobox"
UnitBoxedInto == last.fn = "into" /\ last.ty = TOption(TUnit) /\ last.arg = Some(Unit)
ResolutionFailed == last.st = "panic" /\ last.val.m \in {"find_class", "member lookup"}

Tuple0FieldKey == <<"unit", "autobox", "STATIC_FIELD_ID">>
LooksUpStaticField(log) ==
    \E i \in 1..Len(log) : log[i].op = "get_id" /\ log[i].a[1] = "static_field"
Constructs(log) == \E i \in 1..Len(log) : log[i].op = "new_object"

\* what an encode and a decode of the arity-0 tuple return
Tuple0Calls ==
    /\ IsUnitAutobox /\ cfg.jni_tuple =>
            \/ ResolutionFailed
            \/ /\ last.st = "ok"
               /\ last.val = Tuple0Instance
               /\ ~Constructs(last.log)
               /\ last.log[Len(last.log)] =
                      Jni("get_static_field", <<<<"Tuple", "0">>, <<"INSTANCE">>>>)
               /\ Has(cache, Tuple0FieldKey)
    /\ last.fn = "unbox" =>
            /\ last.st = "ok"
            /\ last.val = Unit
            /\ last.log = <<>>

\* once the static field id is resolved it stays, and no later call looks it
\* up again
Tuple0IdReused ==
    Has(cache, Tuple0FieldKey) =>
        /\ Has(cache', Tuple0FieldKey)
        /\ cache'[Tuple0FieldKey] = cache[Tuple0FieldKey]
        /\ ~LooksUpStaticField(last'.log)

StringAllocs(log) == SelectSeq(log, LAMBDA x : x.op = "new_string")
FieldReads(log) == SelectSeq(log, LAMBDA x : x.op = "get_field")
\* the first position of a sequence that satisfies a test (0 when none does)
FirstBadString(xs) ==
    IF \E i \in 1..Len(xs) : xs[i].k = "String" /\ xs[i].v \in BadStrings
    THEN CHOOSE i \in 1..Len(xs) :
            /\ xs[i].k = "String" /\ xs[i].v \in BadStrings
            /\ \A j \in 1..(i - 1) : ~(xs[j].k = "String" /\ xs[j].v \in BadStrings)
    ELSE 0
FirstNullField(xs) ==
    IF \E i \in 1..Len(xs) : is_null(xs[i])
    THEN CHOOSE i \in 1..Len(xs) : is_null(xs[i]) /\ \A j \in 1..(i - 1) : ~is_null(xs[j])
    ELSE 0

\* C11: in the fallible family the first failure wins. try_into of a tuple
\* whose element i is the first that fails returns that element's error,
\* converts no later element and does not call the constructor; try_from of a
\* tuple returns the error of the first field whose read or conversion fails
\* and reads no later field; try_into of a Result whose payload fails returns
\* that error and constructs nothing; a failed call carries an error only
C11_FirstFailureWins ==
    /\ (last.fn = "try_into" /\ last.ty.k = "Tuple" /\ FirstBadString(last.arg.v) > 0) =>
            \/ ResolutionFailed
            \/ LET i == FirstBadString(last.arg.v) IN
                /\ last.st = "err"
                /\ last.val.e = last.arg.v[i].v
                /\ ~Constructs(last.log)
                /\ StringAllocs(last.log) = [j \in 1..i |-> Jni("new_string", last.arg.v[j].v)]
    /\ (last.fn = "try_into" /\ last.ty.k = "Result" /\ last.arg.v.v \in BadStrings) =>
            \/ ResolutionFailed
            \/ /\ last.st = "err"
               /\ last.val.e = last.arg.v.v
               /\ ~Constructs(last.log)
    /\ (last.fn = "try_from" /\ last.ty.k = "Tuple" /\ is_null(last.arg)) =>
            \/ ResolutionFailed
            \/ last.st = "err" /\ last.val.e = "NullPtr" /\ FieldReads(last.log) = <<>>
    /\ (last.fn = "try_from" /\ last.ty = TTuple(<<TString, TString>>)
            /\ ~is_null(last.arg) /\ FirstNullField(last.arg.f) > 0) =>
            \/ ResolutionFailed
            \/ LET i == FirstNullField(last.arg.f) IN
                /\ last.st = "err"
                /\ last.val.e = "NullPtr"
                /\ FieldReads(last.log) = [j \in 1..i |-> Jni("get_field", <<"t", ToStr(j - 1)>>)]
    /\ (last.fn \in {"try_into", "try_from"} /\ last.st = "err") => last.val.k = "error"

\* the second element of a tuple failed after the first was converted
C11_Witness ==
    /\ last.fn = "try_into"
    /\ last.arg = TupleOf(<<Str(""), Str("boom")>>)
    /\ last.st = "err"
    /\ last.val.e = "boom"

\* -------------------------------------------- claims on the value envelope
ClaimedKinds == {"bool", "byte", "char", "double", "float", "int", "long", "short",
                 "object", "void"}

\* C12: extracting kind k from an envelope stored with tag t returns the
\* stored value if and only if k = t; otherwise it returns the error
\* WrongJValueType naming k as expected and t as actual, and never a value of
\* another kind
C12_TypedExtraction ==
    (last.fn = "extract" /\ last.ty.k \in ClaimedKinds) =>
        IF last.ty.k = last.arg.tag
        THEN /\ last.st = "ok"
             /\ last.val = [k |-> last.ty.k, v |-> last.arg.v]
        ELSE /\ last.st = "err"
             /\ last.val.e = [k |-> "WrongJValueType", expected |-> last.ty.k,
                              actual |-> last.arg.tag]

\* a short was asked of an envelope holding an int and refused
C12_Witness ==
    /\ last.fn = "extract"
    /\ last.ty.k = "short"
    /\ last.arg.tag = "int"
    /\ last.st = "err"

\* ---------------------------------------------- claims on the parsed forms
\* C13: the parsed form a type returns is the parse of its own descriptor,
\* for generic wrappers such as Option<T> too and whatever was asked of other
\* types before
C13_ParsedFormOfOwnDescriptor ==
    last.fn \in ParsedForms => last.val = from_str(last.fn, SIG_TYPE(last.ty))

\* -------------------------------------------- claims on the member cache
\* the slot a decode of the fallible / infallible family keeps the id of t(i) in
FieldSlot(fn, T, i) == tuple_own(T) \o <<fn, "FIELD_ID", ToStr(i)>>
ReadsField(log, i) ==
    \E n \in 1..Len(log) : log[n] = Jni("get_field", <<"t", ToStr(i)>>)

\* C14: the field id a tuple decode uses for t(i) is the one resolved under the
\* name t(i) and the descriptor of the element type at i, also after a decode
\* of the same arity with another element type at i has filled a cache slot
C14_HandlePerTypeNameSig ==
    (last.fn \in {"try_from", "from"} /\ last.ty.k = "Tuple") =>
        \A i \in 0..(Len(last.ty.of) - 1) :
            ReadsField(last.log, i) =>
                /\ Has(cache, FieldSlot(last.fn, last.ty, i))
                /\ cache[FieldSlot(last.fn, last.ty, i)] =
                       MemberId("field", tuple_own(last.ty), <<"t", ToStr(i)>>,
                                SIG_TYPE(last.ty.of[i + 1]))

\* ------------------------------------------ claims on the two families
IsParity == last.fn \in {"parity_into", "parity_from"}
LookupFailed(st, val) == st = "panic" /\ val.m \in {"find_class", "member lookup"}

\* C15: on a well-formed input (the infallible family returns) the fallible
\* family returns Ok of the same handle or value, and from unfilled statics
\* both issue the same foreign-runtime operations; on a malformed input the
\* infallible family panics and the fallible family returns an error (the
\* class path resolving the classes)
C15_FamilyParity ==
    (IsParity /\ ~LookupFailed(last.st, last.val) /\ ~LookupFailed(last.ust, last.uval)) =>
        IF last.ust = "ok"
        THEN /\ last.st = "ok"
             /\ last.val = last.uval
             /\ last.cold => last.log = last.ulog
        ELSE /\ last.ust = "panic"
             /\ last.st = "err"

\* ------------------------------------------------- claims on primitives
\* C16: every value of every primitive kind comes back from encode then
\* decode: bool through the bytes 1 / 0, char, also above U+FFFF, through one
\* 16-bit unit
C16_PrimitiveRoundTrip ==
    (last.fn = "from" /\ last.ty \in PrimTypes /\ last.src # NoSrc) =>
        /\ last.st = "ok"
        /\ last.val = last.src

\* ------------------------------------------- claims on concurrent calls
\* the elements a call has produced so far are its own, in their order
OwnElements(t) ==
    LET j == job[t] IN
    CASE j.kind = "vec_into" /\ j.obj # 0 ->
            heap[j.obj] = [x \in 1..(j.i - 1) |-> IntegerObj(j.arg[x])]
      [] j.kind = "tuple_into" ->
            j.out = [x \in 1..(j.i - 1) |-> IntegerObj(j.arg[x])]
      [] j.kind = "vec_from" ->
            j.out = [x \in 1..(j.i - 1) |-> JInt(ForeignLists[j.src][x].f)]
      [] OTHER -> TRUE

\* a call that returned produced every element of its input
Complete(t) ==
    LET j == job[t] IN
    (outcome[t] = "ok" /\ j.kind # "result_from") =>
        j.i = 1 + (IF j.kind = "vec_from" THEN Len(ForeignLists[j.src]) ELSE Len(j.arg))

\* no two calls hold the same list, and no call writes a list it was not given
OwnEnvelope ==
    /\ \A t, u \in Threads : (t # u /\ job[t].obj # 0) => job[t].obj # job[u].obj
    /\ \A id \in DOMAIN ForeignLists : heap[id] = ForeignLists[id]

\* C17: when threads encode or decode different sequences or tuples side by
\* side, under every interleaving each call's result holds exactly its own
\* elements in their order; the calls share only the cached handles, each
\* written once
C17_NoCrossCallInterference ==
    /\ \A t \in Threads : OwnElements(t) /\ Complete(t)
    /\ OwnEnvelope
    /\ \A s \in DOMAIN writes : writes[s] <= 1

\* two encodes of different sequences overlapped: the list allocated second
\* was returned while the first is still being filled
C17_Witness ==
    \E t, u \in Threads :
        /\ job[t].kind = "vec_into" /\ job[u].kind = "vec_into"
        /\ job[t].arg # job[u].arg
        /\ job[t].obj > job[u].obj /\ job[u].obj # 0
        /\ outcome[t] = "ok"
        /\ outcome[u] = "running" /\ job[u].i = 2

\* a thread between a member static and its class static holds at most the
\* member cell; at a member static it holds none
MemberThenClass ==
    \A t \in Threads :
        /\ pc[t] \in {"idle", "e_member", "e_new", "e_elems"} =>
                \A s \in DOMAIN owner : owner[s] # t
        /\ pc[t] = "e_class" =>
                \A s \in DOMAIN owner : owner[s] = t => s = CurMember(t) /\ ret[t] = "e_lookup"
        /\ pc[t] = "e_find" => owner[class_slot(job[t].kind)] = t

\* C20: threads making the first access side by side, for one composite type
\* or several: the member cell is taken before the class cell, never the
\* other way round, and under fair scheduling every call returns
C20_FirstAccessCompletes ==
    /\ []MemberThenClass
    /\ \A t \in Threads : (outcome[t] = "running") ~> (outcome[t] = "ok")

\* a thread waits at a member static whose initialiser, run by another
\* thread, is inside the nested initialisation of the class static
C20_Witness ==
    \E t, u \in Threads :
        /\ t # u
        /\ pc[t] = "e_member"
        /\ owner[CurMember(t)] = u
        /\ pc[u] = "e_find"
        /\ owner[class_slot(job[u].kind)] = u

\* ------------------------------------------------ claims on descriptors
\* the descriptor of a type in the build of this process
DescriptorOf(T) == SIG_TYPE_in(T, cfg.build)

\* Option, Vec and Result: Option<T> has T's descriptor, Vec<T> the list
\* descriptor, Result the constant of the build
ComposedDescriptor ==
    last.fn = "SIG_TYPE" =>
        /\ last.ty.k = "Option" => last.val = DescriptorOf(last.ty.of)
        /\ last.ty.k = "Vec" => last.val = <<"L", "java/util/ArrayList", ";">>
        /\ last.ty.k = "Result" =>
                last.val = (IF cfg.build.result.set THEN cfg.build.result.val
                            ELSE <<"L", "Result", ";">>)

\* the configured prefix, the arity, ";"
PrefixArity(n) ==
    (IF cfg.build.prefix.set THEN cfg.build.prefix.val ELSE <<"L", "Tuple">>)
        \o <<ToStr(n), ";">>

\* the arity of a tuple type; () is the tuple of arity 0
IsTupleType(T) == T.k \in {"Tuple", "unit"}
Arity(T) == IF T.k = "unit" THEN 0 ELSE Len(T.of)

\* C18 as stated: Option<T> has T's descriptor, Vec<T> the list descriptor,
\* Result the build's constant, and a tuple of any arity N the configured
\* prefix followed by N
C18_DescriptorComposition ==
    /\ ComposedDescriptor
    /\ (last.fn = "SIG_TYPE" /\ IsTupleType(last.ty)) =>
            last.val = PrefixArity(Arity(last.ty))

\* C18 amended: Option<T> has T's descriptor, Vec<T> the list descriptor,
\* Result the build's constant, a tuple of arity N >= 1 the configured prefix
\* followed by N whatever its elements, and () the descriptor V
C18_DescriptorCompositionFromArity1 ==
    /\ ComposedDescriptor
    /\ (last.fn = "SIG_TYPE" /\ IsTupleType(last.ty)) =>
            last.val = (IF Arity(last.ty) >= 1 THEN PrefixArity(Arity(last.ty))
                        ELSE <<"V">>)

\* the descriptor of a pair was taken in a build with its own tuple prefix
C18_Witness ==
    /\ last.fn = "SIG_TYPE"
    /\ last.ty = TTuple(<<TString, TI32>>)
    /\ cfg.build.prefix.set
    /\ last.val = <<"L", "com/acme/T", "2", ";">>

\* ---------------------------------------------- claims on the build
\* the arities of the generated adapters, in the order generated
GeneratedArities == [i \in 1..Len(last.val) |-> Len(last.val[i].params)]

RECURSIVE Pow10(_)
Pow10(n) == IF n = 0 THEN 1 ELSE 10 * Pow10(n - 1)

RECURSIVE PlaceSum(_, _)
PlaceSum(num, i) ==
    IF i > Len(num) THEN 0
    ELSE DigitValue(num[i]) * Pow10(Len(num) - i) + PlaceSum(num, i + 1)

\* the entries of TUPLE_IMPL_STRING: the stretches between commas
ConfiguredEntries ==
    LET str == cfg.build.impl.val
        cut == {0, Len(str) + 1} \cup {i \in 1..Len(str) : str[i] = ","}
    IN  {SubSeq(str, a + 1, b - 1) :
            <<a, b>> \in {p \in cut \X cut :
                            p[1] < p[2] /\ \A c \in cut : ~(p[1] < c /\ c < p[2])}}

\* the numeral of an entry between the positions a and b, sign dropped
Numeral(e, a, b) == IF e[a] = "+" THEN SubSeq(e, a + 1, b) ELSE SubSeq(e, a, b)

\* the non-negative integers the entries denote: blanks around, an optional
\* plus sign, decimal digits
ConfiguredArities ==
    UNION {{PlaceSum(Numeral(e, p[1], p[2]), 1) :
                p \in {q \in (1..Len(e)) \X (1..Len(e)) :
                        /\ q[1] <= q[2]
                        /\ \A i \in 1..Len(e) : (i < q[1] \/ i > q[2]) => e[i] = " "
                        /\ Numeral(e, q[1], q[2]) # <<>>
                        /\ \A i \in 1..Len(Numeral(e, q[1], q[2])) :
                                IsDigit(Numeral(e, q[1], q[2])[i])}} :
            e \in ConfiguredEntries}

\* C19: whatever TUPLE_IMPL_STRING holds, the generated adapters include
\* arity 0, have every configured numeric arity exactly once and nothing
\* else, in ascending order; entries that are no non-negative integer are
\* dropped; without configuration the arities are 0..=12; the parameters of
\* arity N are (T_i, t_i, i) for i = 0..N-1 in order
C19_BuildArities ==
    last.fn = "build" =>
        LET ar == GeneratedArities IN
        /\ \E i \in 1..Len(ar) : ar[i] = 0
        /\ \A i, j \in 1..Len(ar) : i < j => ar[i] < ar[j]
        /\ cfg.build.impl.set =>
                {ar[i] : i \in 1..Len(ar)} = ConfiguredArities \cup {0}
        /\ ~cfg.build.impl.set => ar = [i \in 1..13 |-> i - 1]
        /\ \A i \in 1..Len(ar) :
                /\ last.val[i].sig = PrefixArity(ar[i])
                /\ \A x \in 1..ar[i] :
                        last.val[i].params[x] =
                            [T |-> <<"T", ToStr(x - 1)>>, t |-> <<"t", ToStr(x - 1)>>,
                             idx |-> x - 1]

\* a build configured with "1,1,": the duplicate collapsed, the empty entry
\* dropped, arity 0 added in front
C19_Witness ==
    /\ last.fn = "build"
    /\ cfg.build.impl = SetTo(<<"1", ",", "1", ",">>)
    /\ GeneratedArities = <<0, 1>>


\* ------------------------------------------- claims on boolean arrays
\* C21: decoding a foreign boolean array of length n gives a slice of length
\* n whose i-th element is true exactly when the i-th foreign element is 1,
\* so a slice, empty or not, comes back from encode then decode
C21_BoolArrayDecode ==
    (last.fn = "from" /\ last.ty = TBoolArray) =>
        /\ last.st = "ok"
        /\ Len(last.val.v) = Len(last.arg.v)
        /\ \A i \in 1..Len(last.arg.v) : last.val.v[i] = (last.arg.v[i] = 1)
        /\ last.src # NoSrc => last.val = last.src

====
